---------------------------- MODULE Spec2Model ----------------------------
(***************************************************************************)
(* Frame graph subsystem of konstrukt: RenderPass, RenderResource,         *)
(* PassBuilder, FrameGraphBuilder, FrameGraph (compile / execute / copy)   *)
(* and RenderCommandBuffer, modelled from the sources under                *)
(* src/source/renderer.                                                    *)
(*                                                                         *)
(* Specifications:                                                         *)
(*   Spec       FrameGraph built through its own API, then compile()       *)
(*   SpecExec   FrameGraph built through its own API, compile(), execute() *)
(*   SpecBuild  FrameGraphBuilder: addPass / create* / build() / execute() *)
(*   SpecCopy   FrameGraph copy constructor                                *)
(*                                                                         *)
(* and the units the frame graph rests on, each driven through its own API:*)
(*   SpecConsumers    RenderResource::addConsumer                          *)
(*   SpecPassBuilder  PassBuilder::read / write                            *)
(*   SpecDeclare      FrameGraphBuilder::createTexture / createBuffer /    *)
(*                    importResource                                       *)
(*   SpecCommands     RenderCommandBuffer::submit / sort                   *)
(*   SpecID           ResourceID                                           *)
(*   SpecRegistry     ResourceRegistry::registerResource                   *)
(*   SpecConfig       Config: callbacks and reload()                       *)
(*   SpecStates       FrameGraph::compile() state transition requests      *)
(*   SpecLayers       LayerStack::pushLayer / pushOverlay / pop*           *)
(*   SpecFrame        one iteration of the loop of Application::run        *)
(*   SpecWatch        Config::init / setWatchingEnabled and the FileWatcher*)
(*   SpecWatched      the same for one file, with a fair watcher thread    *)
(*   SpecNotify       Config::reload() notifying callbacks step by step    *)
(***************************************************************************)
EXTENDS Integers, Sequences, FiniteSets, TLC

VARIABLES
  phase,      \* position of the driving program
  fg,         \* the FrameGraph object: m_passes, m_resources
  pre,        \* fg as it was when the last compile() was entered (history)
  log,        \* calls received by the GraphicsContext and callbacks run in the last execute()
  builder,    \* the FrameGraphBuilder object: m_passes, m_resources
  built,      \* the FrameGraph returned by build() / made by the copy constructor
  declared,   \* SpecDeclare: the createTexture / createBuffer / importResource calls
              \* made on builder, in call order (history)
  renderResource, \* SpecConsumers: a RenderResource
  addCalls,   \* SpecConsumers: the pointers passed to addConsumer so far (history)
  setupPassBuilder, \* SpecPassBuilder: a PassBuilder
  setupCalls, \* SpecPassBuilder: the read / write calls made so far (history)
  m_commands, \* SpecCommands: RenderCommandBuffer::m_commands
  unsorted,   \* SpecCommands: m_commands as it was when sort() was entered (history)
  idA, idB,   \* SpecID: two ResourceID values
  counter,    \* SpecRegistry: g_resourceIdCounter
  returned,   \* SpecRegistry: the IDs registerResource returned so far (history)
  resourceTypes, \* SpecRegistry: ResourceRegistry::m_resourceTypes
  configFile, \* SpecConfig: what the configuration file on disk holds
  configFilePath, \* SpecConfig: Config::s_configFilePath
  configData, \* SpecConfig: Config::s_configData
  previousConfigData, \* SpecConfig: Config::s_previousConfigData
  callbacks,  \* SpecConfig: Config::s_callbacks
  nextCallbackHandle, \* SpecConfig: Config::s_nextCallbackHandle
  lastCall,   \* SpecConfig: the last call made on Config, what it returned and the
              \* callback invocations it made (history)
  removedCallbacks, \* SpecConfig: the callbacks removeCallback erased so far (history)
  layerStack, \* SpecLayers: a LayerStack: m_layers, m_layerInsertIndex
  layerCalls, \* SpecLayers: the push and pop calls made on layerStack so far (history)
  framePc,    \* SpecFrame: position of Application::run in its loop body
  layerIter,  \* SpecFrame: position of the range-for over the layer stack
  enabled,    \* SpecFrame: Layer::m_enabled of every Layer object
  frameLog,   \* SpecFrame: what the current frame did so far, in order (history)
  disk,       \* SpecWatch: the files on disk, by path: modification time and contents
  s_watchingEnabled, \* SpecWatch: Config::s_watchingEnabled
  s_fileWatcher, \* SpecWatch: Config::s_fileWatcher and the FileWatcher it owns
  watchThread, \* SpecWatch: position of the thread running FileWatcher::watchThread
  appPc,      \* SpecWatch: position of the application thread inside a Config call
  loadedTime, \* SpecWatch: modification time of the file contents last loaded (history)
  changedWatching, \* SpecWatch: modification time given to the configuration file by
              \* the last write made while watching was enabled (history)
  s_callbackMutex, \* SpecNotify: Config::s_callbackMutex: "free" or "locked"
  notifyPc,   \* SpecNotify: position of the thread that called Config::reload
  pendingCalls \* SpecNotify: the callback invocations notifyCallbacks has still to make

graphVars == <<phase, fg, pre, log, builder, built>>
consumerVars == <<renderResource, addCalls>>
passBuilderVars == <<setupPassBuilder, setupCalls>>
commandVars == <<m_commands, unsorted>>
idVars == <<idA, idB>>
registryVars == <<counter, returned, resourceTypes>>
configVars == <<configFile, configFilePath, configData, previousConfigData, callbacks,
                nextCallbackHandle, lastCall, removedCallbacks>>
layerVars == <<layerStack, layerCalls>>
frameVars == <<framePc, layerIter, enabled, frameLog>>
watchVars == <<disk, s_watchingEnabled, s_fileWatcher, watchThread, appPc, loadedTime,
               changedWatching>>
notifyVars == <<s_callbackMutex, notifyPc, pendingCalls>>
laterVars == <<layerVars, frameVars, watchVars, notifyVars>>
unitVars == <<consumerVars, passBuilderVars, commandVars, idVars, registryVars, configVars,
              laterVars>>

vars == <<graphVars, declared, unitVars>>

(***************************************************************************)
(* Bounds                                                                  *)
(***************************************************************************)
\* passes added to one FrameGraph in Spec
MaxPasses == 2

\* passes added to one FrameGraph in SpecExec
MaxExecPasses == 2

\* passes declared on one FrameGraphBuilder in SpecBuild
MaxBuilderPasses == 2

\* passes added to the FrameGraph that is copied in SpecCopy
MaxCopyPasses == 2

\* addConsumer calls made on the RenderResource of SpecConsumers
MaxAddCalls == 4

\* distinct RenderPass objects whose addresses are passed to addConsumer
MaxConsumerPasses == 2

\* createTexture / createBuffer / importResource calls made on one FrameGraphBuilder
MaxDeclarations == 3

\* read and write calls made on the PassBuilder of SpecPassBuilder
MaxSetupCalls == 4

\* commands submitted to the RenderCommandBuffer of SpecCommands
MaxCommands == 3

\* largest materialID.index of a submitted DrawCommandData
MaxMaterialIndex == 1

\* largest small index passed to ResourceID::create in SpecID
MaxIndex == 1

\* largest small generation passed to ResourceID::create in SpecID
MaxGeneration == 1

\* registerResource calls made in SpecRegistry
MaxRegistrations == 3

\* callbacks registered on Config in SpecConfig
MaxCallbacks == 2

\* calls made on the LayerStack in SpecLayers
MaxLayerCalls == 4

\* writes to one configuration file in SpecWatch
MaxFileWrites == 2

(***************************************************************************)
(* Values                                                                  *)
(***************************************************************************)
\* resource names (RenderResourceHandle is std::string)
ResourceNames == {"Swapchain", "Intermediate"}

\* the i-th pass declared in a frame is named PassNameSeq[i]
PassNameSeq == <<"A", "B", "C", "D", "E">>

\* the i-th pass declared on a FrameGraphBuilder is named BuilderPassNameSeq[i]
BuilderPassNameSeq == <<"ClearScreen", "Blit", "Post", "Present", "Overlay">>

\* std::numeric_limits<uint32_t>::max(), 0xFFFFFFFF, written as the 32-bit
\* two's complement integer of the same bit pattern
INVALID_INDEX == -1

invalid == [index |-> INVALID_INDEX, generation |-> 0]

create(idx, gen) == [index |-> idx, generation |-> gen]

isValid(id) == id.index # INVALID_INDEX

\* an equality that compares the index only
equalsByIndex(a, b) == a.index = b.index

\* ResourceID::operator==
equals(a, b) == a.index = b.index /\ a.generation = b.generation

\* ResourceID::operator!=
notEquals(a, b) == ~equals(a, b)

NullPtr == [kind |-> "null", owner |-> "", idx |-> 0]

\* a RenderPass object owned by the caller of the FrameGraph API, alive
ExtPtr(name) == [kind |-> "ext", owner |-> name, idx |-> 0]

\* the loop-local `pass` of FrameGraphBuilder::build() living at stack slot a
LocalPtr(a) == [kind |-> "local", owner |-> "build", idx |-> a]

\* element i of the m_passes vector of graph g
VecPtr(g, i) == [kind |-> "vec", owner |-> g, idx |-> i]

\* an empty std::function
NoFunc == [set |-> FALSE, cmds |-> <<>>]

\* a callback that submits the commands cmds, in order
Func(cmds) == [set |-> TRUE, cmds |-> cmds]

\* sequences over S without repetition
RECURSIVE NoDupSeqs(_)
NoDupSeqs(S) ==
  IF S = {} THEN {<<>>}
  ELSE {<<>>} \cup UNION {{<<x>> \o t : t \in NoDupSeqs(S \ {x})} : x \in S}

Range(s) == {s[i] : i \in DOMAIN s}

(***************************************************************************)
(* RenderPass                                                              *)
(***************************************************************************)
\* a default-constructed RenderPass after setName
NewPass(name) == [name |-> name, inputs |-> <<>>, outputs |-> <<>>, executeFunc |-> NoFunc]

addInput(pass, resource) ==
  IF resource \in Range(pass.inputs) THEN pass
  ELSE [pass EXCEPT !.inputs = Append(@, resource)]

addOutput(pass, resource) ==
  IF resource \in Range(pass.outputs) THEN pass
  ELSE [pass EXCEPT !.outputs = Append(@, resource)]

setExecuteFunction(pass, func) == [pass EXCEPT !.executeFunc = func]

RECURSIVE addInputs(_, _)
addInputs(pass, names) ==
  IF names = <<>> THEN pass ELSE addInputs(addInput(pass, Head(names)), Tail(names))

RECURSIVE addOutputs(_, _)
addOutputs(pass, names) ==
  IF names = <<>> THEN pass ELSE addOutputs(addOutput(pass, Head(names)), Tail(names))

\* a RenderPass made by the caller: setName, addInput*, addOutput*, setExecuteFunction
MakePass(name, ins, outs, func) ==
  setExecuteFunction(addOutputs(addInputs(NewPass(name), ins), outs), func)

(***************************************************************************)
(* RenderResource                                                          *)
(***************************************************************************)
\* RenderResource(const ResourceDesc&): state and transient from the desc, no ID
ResourceFromDesc(initialState, transient) ==
  [ state         |-> initialState,
    resourceID    |-> invalid,
    transient     |-> transient,
    usedThisFrame |-> FALSE,
    producer      |-> NullPtr,
    consumers     |-> <<>> ]

\* RenderResource(type, rID, initialState = GENERAL)
ResourceFromID(rID) ==
  [ state         |-> "GENERAL",
    resourceID    |-> rID,
    transient     |-> FALSE,
    usedThisFrame |-> FALSE,
    producer      |-> NullPtr,
    consumers     |-> <<>> ]

markUsed(res) == [res EXCEPT !.usedThisFrame = TRUE]

resetUsage(res) == [res EXCEPT !.usedThisFrame = FALSE]

setProducer(res, ptr) == [res EXCEPT !.producer = ptr]

\* addConsumer without the search for the pass in m_consumers
addConsumerWithoutSearch(res, ptr) ==
  IF ptr = NullPtr THEN res
  ELSE [res EXCEPT !.consumers = Append(@, ptr)]

addConsumer(res, ptr) ==
  IF ptr = NullPtr THEN res
  ELSE IF ptr \in Range(res.consumers) THEN res
  ELSE [res EXCEPT !.consumers = Append(@, ptr)]

(***************************************************************************)
(* FrameGraph                                                              *)
(***************************************************************************)
EmptyGraph == [passes |-> <<>>, resources |-> <<>>]

\* getResource(name) != nullptr
Resolves(g, name) == name \in DOMAIN g.resources

\* an insertion that leaves an existing entry of the name as it is
PutResourceKeepsFirst(resources, name, value) ==
  IF name \in DOMAIN resources THEN resources
  ELSE [n \in DOMAIN resources \cup {name} |-> IF n = name THEN value ELSE resources[n]]

\* m_resources[name] = value
PutResource(resources, name, value) ==
  [n \in (DOMAIN resources) \cup {name} |-> IF n = name THEN value ELSE resources[n]]

FGaddPass(g, pass) == [g EXCEPT !.passes = Append(@, pass)]

FGcreateResource(g, name, initialState, transient) ==
  [g EXCEPT !.resources = PutResource(@, name, ResourceFromDesc(initialState, transient))]

FGaddResource(g, name, resource) ==
  [g EXCEPT !.resources = PutResource(@, name, resource)]

----------------------------------------------------------------------------
(* compile(): the working state is st = [used, res, changed]: passUsed,     *)
(* m_resources and the loop flag.                                           *)

\* Framegraph.cc 35-37: resetUsage on every resource
CompileReset(g) == [n \in DOMAIN g.resources |-> resetUsage(g.resources[n])]

\* RootOutputs with the isTransient() test left out
RECURSIVE RootOutputsIgnoringTransient(_, _, _, _)
RootOutputsIgnoringTransient(g, st, i, k) ==
  IF k > Len(g.passes[i].outputs) THEN st
  ELSE LET outputName == g.passes[i].outputs[k] IN
       IF outputName \in DOMAIN st.res
       THEN [st EXCEPT !.used[i] = TRUE, !.res[outputName] = markUsed(@)]
       ELSE RootOutputsIgnoringTransient(g, st, i, k + 1)

\* Framegraph.cc 43-51: the scan of pass i's outputs from position k, stopping at the
\* first output that resolves to a non-transient resource
RECURSIVE RootOutputs(_, _, _, _)
RootOutputs(g, st, i, k) ==
  IF k > Len(g.passes[i].outputs) THEN st
  ELSE LET outputName == g.passes[i].outputs[k] IN
       IF outputName \in DOMAIN st.res /\ ~st.res[outputName].transient
       THEN [st EXCEPT !.used[i] = TRUE, !.res[outputName] = markUsed(@)]
       ELSE RootOutputs(g, st, i, k + 1)

\* Framegraph.cc 41-52: root marking of passes i..n
RECURSIVE RootMark(_, _, _)
RootMark(g, st, i) ==
  IF i > Len(g.passes) THEN st
  ELSE RootMark(g, RootOutputs(g, st, i, 1), i + 1)

\* Framegraph.cc 71-81: the first pass whose outputs hold inputName, 0 when there is none
FirstProducer(g, inputName) ==
  LET js == {j \in 1..Len(g.passes) : inputName \in Range(g.passes[j].outputs)}
  IN IF js = {} THEN 0 ELSE CHOOSE j \in js : \A k \in js : j <= k

\* PropagateInput that sets changed for every resource it marks, whether or not
\* a pass was marked with it
PropagateInputFlagsEveryMark(g, st, inputName) ==
  IF inputName \in DOMAIN st.res /\ ~st.res[inputName].usedThisFrame
  THEN LET st1 == [st EXCEPT !.res[inputName] = markUsed(@), !.changed = TRUE]
           j   == FirstProducer(g, inputName)
       IN IF j # 0 /\ ~st1.used[j] THEN [st1 EXCEPT !.used[j] = TRUE] ELSE st1
  ELSE st

\* Framegraph.cc 66-82: one input of a pass that is not marked used
PropagateInput(g, st, inputName) ==
  IF inputName \in DOMAIN st.res /\ ~st.res[inputName].usedThisFrame
  THEN LET st1 == [st EXCEPT !.res[inputName] = markUsed(@)]
           j   == FirstProducer(g, inputName)
       IN IF j # 0 /\ ~st1.used[j]
          THEN [st1 EXCEPT !.used[j] = TRUE, !.changed = TRUE]
          ELSE st1
  ELSE st

\* Framegraph.cc 65-83: the inputs of pass i from position k
RECURSIVE PropagateInputs(_, _, _, _)
PropagateInputs(g, st, i, k) ==
  IF k > Len(g.passes[i].inputs) THEN st
  ELSE PropagateInputs(g, PropagateInput(g, st, g.passes[i].inputs[k]), i, k + 1)

\* Framegraph.cc 59-61: the passes whose inputs the backward scan looks at
ScansInputsOf(st, i) == ~st.used[i]

\* Framegraph.cc 58-84: one backward scan, passes i down to 1
RECURSIVE BackwardScan(_, _, _)
BackwardScan(g, st, i) ==
  IF i < 1 THEN st
  ELSE IF ScansInputsOf(st, i)
       THEN BackwardScan(g, PropagateInputs(g, st, i, 1), i - 1)
       ELSE BackwardScan(g, st, i - 1)

\* Framegraph.cc 54-85: repeat the backward scan while one of them marked a pass
RECURSIVE FixedPoint(_, _)
FixedPoint(g, st) ==
  LET st1 == BackwardScan(g, [st EXCEPT !.changed = FALSE], Len(g.passes))
  IN IF st1.changed THEN FixedPoint(g, st1) ELSE st1

\* Sweep that collects the used passes from the last to the first
RECURSIVE SweepBackwards(_, _, _)
SweepBackwards(passes, used, i) ==
  IF i > Len(passes) THEN <<>>
  ELSE SweepBackwards(passes, used, i + 1) \o (IF used[i] THEN <<passes[i]>> ELSE <<>>)

\* Framegraph.cc 87-94: the passes marked used, in their order
RECURSIVE Sweep(_, _, _)
Sweep(passes, used, i) ==
  IF i > Len(passes) THEN <<>>
  ELSE (IF used[i] THEN <<passes[i]>> ELSE <<>>) \o Sweep(passes, used, i + 1)

\* Framegraph.cc 41-85: the marks after the root marking and after each
\* repetition of the backward scan, the last being the scan that left changed false
RECURSIVE ScanTrace(_, _)
ScanTrace(g, st) ==
  LET st1 == BackwardScan(g, [st EXCEPT !.changed = FALSE], Len(g.passes))
  IN <<st>> \o (IF st1.changed THEN ScanTrace(g, st1) ELSE <<st1>>)

CompileScans(g) ==
  LET st0 == [used    |-> [i \in 1..Len(g.passes) |-> FALSE],
              res     |-> CompileReset(g),
              changed |-> TRUE]
  IN ScanTrace(g, RootMark(g, st0, 1))

\* the marks compile() ends with
CompileMarks(g) ==
  LET st0 == [used    |-> [i \in 1..Len(g.passes) |-> FALSE],
              res     |-> CompileReset(g),
              changed |-> TRUE]
  IN FixedPoint(g, RootMark(g, st0, 1))

compile(g) ==
  LET st == CompileMarks(g)
  IN [passes |-> Sweep(g.passes, st.used, 1), resources |-> st.res]

(***************************************************************************)
(* FrameGraph copy constructor                                             *)
(***************************************************************************)
\* getName() through a RenderPass pointer held by a resource of graph `other`:
\* the name of the caller's object or of the vector element it points to; a
\* pointer to a dead build() local is read after the object's lifetime, and
\* dangling[slot] stands for whatever that read returns
NameThrough(other, ptr, dangling) ==
  IF ptr.kind = "ext" THEN ptr.owner
  ELSE IF ptr.kind = "vec" THEN other.passes[ptr.idx].name
  ELSE dangling[ptr.idx]

\* Framegraph.hpp 51-56, 63-68: the first pass of the copy with that name, 0 when none
FirstNamed(passes, name) ==
  LET is == {i \in 1..Len(passes) : passes[i].name = name}
  IN IF is = {} THEN 0 ELSE CHOOSE i \in is : \A k \in is : i <= k

\* Framegraph.hpp 45-57: the producer of a copied resource
CopyProducer(other, copyId, res, original, dangling) ==
  LET reset == setProducer(res, NullPtr) IN
  IF original.producer = NullPtr THEN reset
  ELSE LET i == FirstNamed(other.passes, NameThrough(other, original.producer, dangling))
       IN IF i = 0 THEN reset ELSE setProducer(reset, VecPtr(copyId, i))

\* Framegraph.hpp 60-69: the consumers of the original from position k on, added to
\* the copied resource res
RECURSIVE CopyConsumers(_, _, _, _, _, _)
CopyConsumers(other, copyId, res, original, dangling, k) ==
  IF k > Len(original.consumers) THEN res
  ELSE LET i == FirstNamed(other.passes, NameThrough(other, original.consumers[k], dangling))
       IN CopyConsumers(other, copyId,
                        IF i = 0 THEN res ELSE addConsumer(res, VecPtr(copyId, i)),
                        original, dangling, k + 1)

\* Framegraph.hpp 41-71: m_passes and m_resources are copied member by member, then
\* every copied resource gets its producer and consumers from the original's
FrameGraphCopy(other, copyId, dangling) ==
  [ passes    |-> other.passes,
    resources |-> [n \in DOMAIN other.resources |->
                     CopyConsumers(other, copyId,
                                   CopyProducer(other, copyId, other.resources[n],
                                                other.resources[n], dangling),
                                   other.resources[n], dangling, 1)] ]

(***************************************************************************)
(* PassBuilder and FrameGraphBuilder                                       *)
(***************************************************************************)
EmptyBuilder == [passes |-> <<>>, resources |-> <<>>]

NewPassBuilder == [inputs |-> <<>>, outputs |-> <<>>]

\* PassBuilder::read
read(pb, resourceName) ==
  IF resourceName \notin Range(pb.outputs)
  THEN [pb EXCEPT !.inputs = Append(@, resourceName)]
  ELSE pb

\* PassBuilder::write
write(pb, resourceName) ==
  IF resourceName \notin Range(pb.outputs)
  THEN [pb EXCEPT !.outputs = Append(@, resourceName)]
  ELSE pb

ReadCall(name) == [op |-> "read", name |-> name]

WriteCall(name) == [op |-> "write", name |-> name]

\* a setup function: the read and write calls it makes on its PassBuilder, in order
RECURSIVE RunSetup(_, _)
RunSetup(pb, calls) ==
  IF calls = <<>> THEN pb
  ELSE RunSetup(IF Head(calls).op = "read" THEN read(pb, Head(calls).name)
                ELSE write(pb, Head(calls).name),
                Tail(calls))

\* FrameGraphBuilder::addPass: setup runs at once, the lists are captured
BuilderPassEntry(name, setup, executeFunc) ==
  LET passBuilder == RunSetup(NewPassBuilder, setup)
  IN [ name |-> name, executeFunc |-> executeFunc,
       inputs |-> passBuilder.inputs, outputs |-> passBuilder.outputs ]

\* FramegraphBuilder.cc 27-31: the inputs of an entry from position k on; the
\* pass under construction gets none of them
RECURSIVE WireInputs(_, _, _, _)
WireInputs(g, inputs, ptr, k) ==
  IF k > Len(inputs) THEN g
  ELSE WireInputs(IF Resolves(g, inputs[k])
                  THEN [g EXCEPT !.resources[inputs[k]] = addConsumer(@, ptr)]
                  ELSE g,
                  inputs, ptr, k + 1)

\* FramegraphBuilder.cc 33-39: the outputs of an entry from position k on;
\* w = [g, pass]
RECURSIVE WireOutputs(_, _, _, _)
WireOutputs(w, outputs, ptr, k) ==
  IF k > Len(outputs) THEN w
  ELSE WireOutputs([ g    |-> IF Resolves(w.g, outputs[k])
                              THEN [w.g EXCEPT !.resources[outputs[k]] = setProducer(@, ptr)]
                              ELSE w.g,
                     pass |-> addOutput(w.pass, outputs[k]) ],
                   outputs, ptr, k + 1)

\* FramegraphBuilder.cc 24-43: one PassEntry; ptr is the address of the local pass
BuildPass(g, passEntry, ptr) ==
  LET w == WireOutputs([ g    |-> WireInputs(g, passEntry.inputs, ptr, 1),
                         pass |-> NewPass(passEntry.name) ],
                       passEntry.outputs, ptr, 1)
  IN FGaddPass(w.g, setExecuteFunction(w.pass, passEntry.executeFunc))

\* FramegraphBuilder.cc 23-44: the entries from position k on; slot[k] is the stack
\* slot of the local pass of iteration k
RECURSIVE BuildPasses(_, _, _, _)
BuildPasses(g, entries, slot, k) ==
  IF k > Len(entries) THEN g
  ELSE BuildPasses(BuildPass(g, entries[k], LocalPtr(slot[k])), entries, slot, k + 1)

\* FramegraphBuilder.cc 46-48: addResource for every resource of the builder
BuildResources(g, resources) ==
  [g EXCEPT !.resources =
     [n \in (DOMAIN g.resources) \cup (DOMAIN resources) |->
        IF n \in DOMAIN resources THEN resources[n] ELSE g.resources[n]]]

\* FramegraphBuilder.cc 22-48: m_framegraph when compile() is called
BuildGraph(g, b, slot) == BuildResources(BuildPasses(g, b.passes, slot, 1), b.resources)

(***************************************************************************)
(* Spec: a FrameGraph filled through addPass / createResource, compiled     *)
(***************************************************************************)
DeclLists == NoDupSeqs(ResourceNames)

\* the frame graph objects after construction
GraphInit ==
  /\ phase = "declare"
  /\ fg = EmptyGraph
  /\ pre = EmptyGraph
  /\ log = <<>>
  /\ builder = EmptyBuilder
  /\ built = EmptyGraph
  /\ declared = <<>>

\* a default RenderResource, no addConsumer call made
ConsumerInit ==
  /\ renderResource = ResourceFromDesc("UNDEFINED", FALSE)
  /\ addCalls = <<>>

\* a default PassBuilder
PassBuilderInit ==
  /\ setupPassBuilder = NewPassBuilder
  /\ setupCalls = <<>>

\* a default RenderCommandBuffer
CommandInit ==
  /\ m_commands = <<>>
  /\ unsorted = <<>>

\* two default ResourceIDs
IDInit ==
  /\ idA = invalid
  /\ idB = invalid

\* the registry at program start
RegistryInit ==
  /\ counter = 0
  /\ returned = <<>>
  /\ resourceTypes = <<>>

\* a JSON value that is not an object
Leaf(value) == [kind |-> "leaf", value |-> value]

\* a JSON object: its members by key
Object(members) == [kind |-> "object", members |-> members]

\* a default-constructed nlohmann::json
JsonNull == Leaf("null")

\* the JSON documents written to the configuration file: an object with
\* "app.name" and an optional "width"
NameValues == {"Konstrukt", "CallbackTest"}

WidthValues == {"1280"}

Document(name, width) ==
  Object([k \in {"app"} \cup (IF width = "absent" THEN {} ELSE {"width"}) |->
            IF k = "app"
            THEN Object([m \in {"name"} |-> Leaf(name)])
            ELSE Leaf(width)])

Documents ==
  {Document(name, width) : name \in NameValues, width \in WidthValues \cup {"absent"}}

\* the configuration file on disk: absent, text that does not parse, or a JSON document
FileMissing == [status |-> "missing", json |-> JsonNull]

FileUnparsable == [status |-> "unparsable", json |-> JsonNull]

FileHolding(json) == [status |-> "json", json |-> json]

\* the statics of Config at program start (Config.cc 77-85); no file on disk
ConfigInit ==
  /\ configFile = FileMissing
  /\ configFilePath = ""
  /\ configData = JsonNull
  /\ previousConfigData = JsonNull
  /\ callbacks = <<>>
  /\ nextCallbackHandle = 1
  /\ lastCall = [op |-> "none"]
  /\ removedCallbacks = {}

\* the Layer objects the application holds shared pointers to
LayerPtrs == {"Scene", "Debug"}

\* LayerStack(): no layers, m_layerInsertIndex = 0
LayerInit ==
  /\ layerStack = [m_layers |-> <<>>, m_layerInsertIndex |-> 0]
  /\ layerCalls = <<>>

\* Application before run(): every Layer is constructed enabled (Layer.hpp 102)
FrameInit ==
  /\ framePc = "top"
  /\ layerIter = 0
  /\ enabled = [layer \in LayerPtrs |-> TRUE]
  /\ frameLog = <<>>

\* the paths configuration files are kept at
Paths == {"a.json", "b.json"}

\* s_fileWatcher before the first setWatchingEnabled(true): no FileWatcher
NoWatcher ==
  [created |-> FALSE, m_filePath |-> "", m_lastWriteTime |-> 0, m_running |-> FALSE]

\* Config.cc 81-82 and the files of the test fixture: both files exist, written
\* once; no watcher, no watcher thread
WatchInit ==
  /\ disk = [path \in Paths |-> [mtime |-> 1, json |-> Document("Konstrukt", "absent")]]
  /\ s_watchingEnabled = FALSE
  /\ s_fileWatcher = NoWatcher
  /\ watchThread = "none"
  /\ appPc = "idle"
  /\ loadedTime = 0
  /\ changedWatching = 0

\* Config.cc 85: the callback mutex is free; no reload is running
NotifyInit ==
  /\ s_callbackMutex = "free"
  /\ notifyPc = "idle"
  /\ pendingCalls = <<>>

\* the units added after Config
LaterInit ==
  /\ LayerInit
  /\ FrameInit
  /\ WatchInit
  /\ NotifyInit

Init ==
  /\ GraphInit
  /\ ConsumerInit
  /\ PassBuilderInit
  /\ CommandInit
  /\ IDInit
  /\ RegistryInit
  /\ ConfigInit
  /\ LaterInit

\* FrameGraph::addPass with a pass the caller made, at most max times
AddPass(max, ins, outs, func) ==
  /\ phase = "declare"
  /\ Len(fg.passes) < max
  /\ fg' = FGaddPass(fg, MakePass(PassNameSeq[Len(fg.passes) + 1], ins, outs, func))
  /\ UNCHANGED <<phase, pre, log, builder, built>>
  /\ UNCHANGED <<declared, unitVars>>

\* FrameGraph::createResource(name, desc)
CreateResource(name, initialState, transient) ==
  /\ phase = "declare"
  /\ fg' = FGcreateResource(fg, name, initialState, transient)
  /\ UNCHANGED <<phase, pre, log, builder, built>>
  /\ UNCHANGED <<declared, unitVars>>

\* FrameGraph::compile()
Compile ==
  /\ phase \in {"declare", "compiled"}
  /\ pre' = fg
  /\ fg' = compile(fg)
  /\ phase' = "compiled"
  /\ UNCHANGED <<log, builder, built>>
  /\ UNCHANGED <<declared, unitVars>>

Next ==
  \/ \E ins \in DeclLists, outs \in DeclLists : AddPass(MaxPasses, ins, outs, NoFunc)
  \/ \E name \in ResourceNames, transient \in BOOLEAN :
       CreateResource(name, "UNDEFINED", transient)
  \/ Compile

Spec == Init /\ [][Next]_vars


(***************************************************************************)
(* RenderCommandBuffer                                                     *)
(***************************************************************************)
\* a RenderCommand made by submit<ClearCommandData>: the clear payload is active
ClearCommand(type) == [type |-> type, payload |-> "clearData"]

\* a RenderCommand made by submit<DrawCommandData>: the draw payload is active
DrawCommand(type) == [type |-> type, payload |-> "drawData"]

\* clear that leaves the commands in place
clearKeepsCommands(commands) == commands

\* RenderCommandBuffer::clear
clear(commands) == <<>>

\* RenderCommandBuffer::submit
submit(commands, cmd) == Append(commands, cmd)

getCommandCount(commands) == Len(commands)

\* RenderPass::execute: the stored callback, when there is one, submits its
\* commands to the buffer one after the other
RECURSIVE SubmitAll(_, _)
SubmitAll(commands, cmds) ==
  IF cmds = <<>> THEN commands
  ELSE SubmitAll(submit(commands, Head(cmds)), Tail(cmds))

PassExecute(pass, commands) ==
  IF pass.executeFunc.set THEN SubmitAll(commands, pass.executeFunc.cmds) ELSE commands

(***************************************************************************)
(* FrameGraph::execute(backend)                                            *)
(* The log holds what the backend receives, and the callbacks run, in      *)
(* order. pass and kind say which pass and which of its lists the entry    *)
(* comes from.                                                             *)
(***************************************************************************)
TransitionCall(i, kind, res, newState) ==
  [ op |-> "transitionResource", pass |-> i, kind |-> kind,
    id |-> res.resourceID, old |-> res.state, new |-> newState, cmds |-> <<>> ]

CallbackRun(i, cmds) ==
  [ op |-> "callback", pass |-> i, kind |-> "",
    id |-> invalid, old |-> "", new |-> "", cmds |-> cmds ]

ExecuteCommandsCall(i, commands) ==
  [ op |-> "executeCommands", pass |-> i, kind |-> "",
    id |-> invalid, old |-> "", new |-> "", cmds |-> commands ]

\* InputTransition without the comparison of the current state with SHADER_READ
InputTransitionWhateverState(g, i, input) ==
  IF Resolves(g, input) /\ isValid(g.resources[input].resourceID)
  THEN <<TransitionCall(i, "input", g.resources[input], "SHADER_READ")>>
  ELSE <<>>

\* Framegraph.cc 101-112: one declared input
InputTransition(g, i, input) ==
  IF Resolves(g, input) /\ isValid(g.resources[input].resourceID)
     /\ g.resources[input].state # "SHADER_READ"
  THEN <<TransitionCall(i, "input", g.resources[input], "SHADER_READ")>>
  ELSE <<>>

\* OutputTransition written like the input loop: a transition to SHADER_READ
OutputTransitionLikeInput(g, i, output) ==
  IF Resolves(g, output) /\ isValid(g.resources[output].resourceID)
     /\ g.resources[output].state # "SHADER_READ"
  THEN <<TransitionCall(i, "output", g.resources[output], "SHADER_READ")>>
  ELSE <<>>

\* Framegraph.cc 114-123: one declared output
OutputTransition(g, i, output) ==
  IF Resolves(g, output) /\ isValid(g.resources[output].resourceID)
  THEN <<TransitionCall(i, "output", g.resources[output], "SHADER_WRITE")>>
  ELSE <<>>

RECURSIVE InputTransitions(_, _, _)
InputTransitions(g, i, k) ==
  IF k > Len(g.passes[i].inputs) THEN <<>>
  ELSE InputTransition(g, i, g.passes[i].inputs[k]) \o InputTransitions(g, i, k + 1)

RECURSIVE OutputTransitions(_, _, _)
OutputTransitions(g, i, k) ==
  IF k > Len(g.passes[i].outputs) THEN <<>>
  ELSE OutputTransition(g, i, g.passes[i].outputs[k]) \o OutputTransitions(g, i, k + 1)

\* Framegraph.cc 129-131: the submission of the recorded commands
Submission(i, commands) ==
  IF getCommandCount(commands) > 0 THEN <<ExecuteCommandsCall(i, commands)>> ELSE <<>>

\* Framegraph.cc 125-127: the scratch buffer after clear() and the pass's callback
RecordPass(pass, commandBuffer) == PassExecute(pass, clear(commandBuffer))

\* Framegraph.cc 127: the callback of pass i, when it has one, ran and submitted cmds
CallbackOf(g, i) ==
  IF g.passes[i].executeFunc.set
  THEN <<CallbackRun(i, g.passes[i].executeFunc.cmds)>>
  ELSE <<>>

\* ExecuteFrom that records and submits a pass before it requests the transitions
RECURSIVE ExecuteFromRecordingFirst(_, _, _)
ExecuteFromRecordingFirst(g, i, commandBuffer) ==
  IF i > Len(g.passes) THEN <<>>
  ELSE LET recorded == RecordPass(g.passes[i], commandBuffer)
       IN CallbackOf(g, i) \o Submission(i, recorded)
            \o InputTransitions(g, i, 1) \o OutputTransitions(g, i, 1)
            \o ExecuteFromRecordingFirst(g, i + 1, recorded)

\* Framegraph.cc 100-132: passes i..n, with the scratch buffer as the passes before left it
RECURSIVE ExecuteFrom(_, _, _)
ExecuteFrom(g, i, commandBuffer) ==
  IF i > Len(g.passes) THEN <<>>
  ELSE LET recorded == RecordPass(g.passes[i], commandBuffer)
       IN InputTransitions(g, i, 1) \o OutputTransitions(g, i, 1)
            \o CallbackOf(g, i) \o Submission(i, recorded)
            \o ExecuteFrom(g, i + 1, recorded)

execute(g) == ExecuteFrom(g, 1, <<>>)

(***************************************************************************)
(* SpecExec: a FrameGraph filled through its API, compiled and executed     *)
(***************************************************************************)
\* input and output lists of the passes of SpecExec
ExecLists == {<<>>} \cup {<<n>> : n \in ResourceNames}

\* callbacks of the passes of SpecExec
ExecFuncs ==
  { NoFunc, Func(<<>>), Func(<<ClearCommand("CLEAR"), DrawCommand("DRAW")>>) }

\* the ResourceID a resource named name gets when it is given a valid one
IDOf(name) == IF name = "Swapchain" THEN create(0, 1) ELSE create(1, 1)

\* Renderer::beginframe (Renderer.cc 103-111) for any resource: createResource, then
\* setResourceID, setState and setTransient on the resource found. It runs
\* before the frame's FrameGraphBuilder is made.
RegisterResource(name, rID, state, transient) ==
  /\ phase = "declare"
  /\ builder = EmptyBuilder
  /\ LET g == FGcreateResource(fg, name, "UNDEFINED", FALSE)
     IN fg' = [g EXCEPT !.resources[name] =
                 [@ EXCEPT !.resourceID = rID, !.state = state, !.transient = transient]]
  /\ UNCHANGED <<phase, pre, log, builder, built>>
  /\ UNCHANGED <<declared, unitVars>>

\* FrameGraph::execute on the compiled graph
Execute ==
  /\ phase = "compiled"
  /\ log' = execute(fg)
  /\ phase' = "executed"
  /\ UNCHANGED <<fg, pre, builder, built>>
  /\ UNCHANGED <<declared, unitVars>>

NextExec ==
  \/ \E ins \in ExecLists, outs \in ExecLists, func \in ExecFuncs :
       AddPass(MaxExecPasses, ins, outs, func)
  \/ \E name \in ResourceNames, valid \in BOOLEAN :
       RegisterResource(name, IF valid THEN IDOf(name) ELSE invalid,
                        "RENDER_TARGET", FALSE)
  \/ Compile
  \/ Execute

SpecExec == Init /\ [][NextExec]_vars

(***************************************************************************)
(* SpecBuild: a frame as Application::run drives it: resources registered   *)
(* on the FrameGraph, passes and resources declared on a FrameGraphBuilder, *)
(* build(), then Renderer::executeFramegraph on the graph build() returned  *)
(***************************************************************************)
\* the setup functions of SpecBuild: no call, one call, or a read of one
\* resource followed by a write of another
Setups ==
  {<<>>}
  \cup {<<ReadCall(n)>> : n \in ResourceNames}
  \cup {<<WriteCall(n)>> : n \in ResourceNames}
  \cup UNION {{<<ReadCall(n), WriteCall(m)>> : m \in ResourceNames \ {n}} : n \in ResourceNames}

\* the execute callback of VulkanTestLayer::prepareDraw: one CLEAR command
ClearScreenFunc == Func(<<ClearCommand("CLEAR")>>)

\* what getName() returns through a pointer to the dead local of stack slot a,
\* slot[k] being the slot of iteration k: the name of the last pass built there
\* when its bytes are intact, and a string that names no pass when they are not
DanglingName(b, slot, a, intact) ==
  IF intact
  THEN LET ks == {k \in 1..Len(b.passes) : slot[k] = a}
       IN b.passes[CHOOSE k \in ks : \A j \in ks : j <= k].name
  ELSE ""

\* the stack slots of build() that producer and consumer pointers of g point to
DanglingSlots(g) ==
  LET ptrs == {g.resources[n].producer : n \in DOMAIN g.resources}
                \cup UNION {Range(g.resources[n].consumers) : n \in DOMAIN g.resources}
  IN {ptr.idx : ptr \in {q \in ptrs : q.kind = "local"}}

\* FrameGraphBuilder::createTexture: m_resources[name] = RenderResource(TEXTURE, rID),
\* rID being what ResourceManager::createTexture returns
createTexture(b, name, rID) ==
  [b EXCEPT !.resources = PutResource(@, name, ResourceFromID(rID))]

\* FrameGraphBuilder::createBuffer: m_resources[name] = RenderResource(resDesc)
createBuffer(b, name) ==
  [b EXCEPT !.resources = PutResource(@, name, ResourceFromDesc("UNDEFINED", FALSE))]

\* FrameGraphBuilder::importResource: from the description when the
\* ResourceManager holds one of rID, from the type and the ID otherwise
importResource(b, name, rID, hasDesc) ==
  [b EXCEPT !.resources =
     PutResource(@, name, IF hasDesc THEN ResourceFromDesc("UNDEFINED", FALSE)
                          ELSE ResourceFromID(rID))]

\* FrameGraphBuilder::addPass
BuilderAddPass(setup, executeFunc) ==
  /\ phase = "declare"
  /\ Len(builder.passes) < MaxBuilderPasses
  /\ builder' = [builder EXCEPT !.passes =
       Append(@, BuilderPassEntry(BuilderPassNameSeq[Len(builder.passes) + 1],
                                  setup, executeFunc))]
  /\ UNCHANGED <<phase, fg, pre, log, built>>
  /\ UNCHANGED <<declared, unitVars>>

\* FrameGraphBuilder::createTexture: rID is what ResourceManager::createTexture returns
BuilderCreateTexture(name, rID) ==
  /\ phase = "declare"
  /\ builder' = createTexture(builder, name, rID)
  /\ UNCHANGED <<phase, fg, pre, log, built>>
  /\ UNCHANGED <<declared, unitVars>>

\* FrameGraphBuilder::createBuffer
BuilderCreateBuffer(name) ==
  /\ phase = "declare"
  /\ builder' = createBuffer(builder, name)
  /\ UNCHANGED <<phase, fg, pre, log, built>>
  /\ UNCHANGED <<declared, unitVars>>

\* FrameGraphBuilder::importResource: hasDesc says whether the ResourceManager
\* holds a description of rID (one it stored in createTexture: state UNDEFINED,
\* not transient)
BuilderImportResource(name, rID, hasDesc) ==
  /\ phase = "declare"
  /\ builder' = importResource(builder, name, rID, hasDesc)
  /\ UNCHANGED <<phase, fg, pre, log, built>>
  /\ UNCHANGED <<declared, unitVars>>

\* FrameGraphBuilder::build(): the passes, the resources, compile(), and the
\* copy of m_framegraph that is returned. sameSlot: the local pass of every
\* iteration lives at the same address. intact[a]: the bytes of the dead local
\* at slot a still read as the pass last built there.
Build(sameSlot) ==
  /\ phase = "declare"
  /\ LET slot     == [k \in 1..Len(builder.passes) |-> IF sameSlot THEN 1 ELSE k]
         graph    == BuildGraph(fg, builder, slot)
         compiled == compile(graph)
     IN /\ pre' = graph
        /\ fg' = compiled
        /\ \E intact \in [DanglingSlots(compiled) -> BOOLEAN] :
             built' = FrameGraphCopy(compiled, "built",
                        [a \in DOMAIN intact |-> DanglingName(builder, slot, a, intact[a])])
  /\ phase' = "built"
  /\ UNCHANGED <<log, builder>>
  /\ UNCHANGED <<declared, unitVars>>

\* Renderer::executeFramegraph on the graph build() returned
ExecuteFramegraph ==
  /\ phase = "built"
  /\ built' = compile(built)
  /\ log' = execute(built')
  /\ phase' = "executed"
  /\ UNCHANGED <<fg, pre, builder>>
  /\ UNCHANGED <<declared, unitVars>>

NextBuild ==
  \/ \E name \in ResourceNames, transient \in BOOLEAN :
       RegisterResource(name, IDOf(name), "RENDER_TARGET", transient)
  \/ \E setup \in Setups : BuilderAddPass(setup, ClearScreenFunc)
  \/ \E name \in ResourceNames : BuilderCreateTexture(name, IDOf(name))
  \/ \E name \in ResourceNames : BuilderCreateBuffer(name)
  \/ \E name \in ResourceNames, hasDesc \in BOOLEAN :
       BuilderImportResource(name, IDOf(name), hasDesc)
  \/ \E sameSlot \in BOOLEAN : Build(sameSlot)
  \/ ExecuteFramegraph

SpecBuild == Init /\ [][NextBuild]_vars

(***************************************************************************)
(* SpecCopy: a FrameGraph whose caller wired producers and consumers to its *)
(* own RenderPass objects, then copy-constructed                            *)
(***************************************************************************)
\* input and output lists of the passes of SpecCopy
CopyLists == {<<>>, <<"Swapchain">>}

\* getResource(name)->setProducer(&pass), pass being the caller's object that was
\* added as pass p and declares name as an output
WireProducer(name, p) ==
  /\ phase = "declare"
  /\ Resolves(fg, name)
  /\ p \in 1..Len(fg.passes)
  /\ name \in Range(fg.passes[p].outputs)
  /\ fg' = [fg EXCEPT !.resources[name] = setProducer(@, ExtPtr(fg.passes[p].name))]
  /\ UNCHANGED <<phase, pre, log, builder, built>>
  /\ UNCHANGED <<declared, unitVars>>

\* getResource(name)->addConsumer(&pass), pass being the caller's object that was
\* added as pass p and declares name as an input
WireConsumer(name, p) ==
  /\ phase = "declare"
  /\ Resolves(fg, name)
  /\ p \in 1..Len(fg.passes)
  /\ name \in Range(fg.passes[p].inputs)
  /\ fg' = [fg EXCEPT !.resources[name] = addConsumer(@, ExtPtr(fg.passes[p].name))]
  /\ UNCHANGED <<phase, pre, log, builder, built>>
  /\ UNCHANGED <<declared, unitVars>>

\* FrameGraph copy(fg)
Copy ==
  /\ phase \in {"declare", "compiled"}
  /\ built' = FrameGraphCopy(fg, "built", <<>>)
  /\ phase' = "copied"
  /\ UNCHANGED <<fg, pre, log, builder>>
  /\ UNCHANGED <<declared, unitVars>>

NextCopy ==
  \/ \E ins \in CopyLists, outs \in CopyLists : AddPass(MaxCopyPasses, ins, outs, NoFunc)
  \/ \E transient \in BOOLEAN : CreateResource("Swapchain", "UNDEFINED", transient)
  \/ \E p \in 1..MaxCopyPasses : WireProducer("Swapchain", p)
  \/ \E p \in 1..MaxCopyPasses : WireConsumer("Swapchain", p)
  \/ Compile
  \/ Copy

SpecCopy == Init /\ [][NextCopy]_vars

(***************************************************************************)
(* Claims about compile(), checked under Spec                              *)
(***************************************************************************)
OutputsOf(g, p) == Range(g.passes[p].outputs)

InputsOf(g, p) == Range(g.passes[p].inputs)

PassNamesOf(g) == {g.passes[p].name : p \in 1..Len(g.passes)}

\* pass p of g has an output that resolves to a non-transient resource
IsRoot(g, p) ==
  \E name \in OutputsOf(g, p) : Resolves(g, name) /\ ~g.resources[name].transient

\* the passes of g reachable from R along the backward producer chain: a pass
\* joins when it writes a resource read by a pass already in the set
RECURSIVE ProducerChain(_, _)
ProducerChain(g, R) ==
  LET R1 == R \cup {p \in 1..Len(g.passes) :
                      \E q \in R : OutputsOf(g, p) \cap InputsOf(g, q) # {}}
  IN IF R1 = R THEN R ELSE ProducerChain(g, R1)

ReachableFromRoots(g) == ProducerChain(g, {p \in 1..Len(g.passes) : IsRoot(g, p)})

\* C1: after compile() every pass left in the pass sequence is a root (has an
\* output resolving to a non-transient resource) or is reachable from a root
\* along the backward producer chain through surviving passes: it writes a
\* resource read by a surviving pass that is itself reachable in this way.
C1_SurvivorsReachableFromRoot ==
  phase = "compiled" => ReachableFromRoots(fg) = 1..Len(fg.passes)

\* C2: transitive retention. If a pass B survives compile() and declares an
\* input R (here in the weakest reading: R resolves to a resource), and the
\* graph holds a pass that declares R as an output, then a pass that declares R
\* as an output survives compile(). The scenario of the claim is the instance
\* A writes transient "Intermediate", B reads it and writes non-transient
\* "Swapchain".
C2_TransitiveRetention ==
  phase = "compiled" =>
    \A b \in 1..Len(fg.passes) : \A R \in InputsOf(fg, b) :
      (Resolves(pre, R) /\ \E a \in 1..Len(pre.passes) : R \in OutputsOf(pre, a))
        => \E a \in 1..Len(fg.passes) : R \in OutputsOf(fg, a)

\* pass p of g writes only names that are transient or resolve to nothing, and
\* no pass of g reads any of them
IsDeadPass(g, p) ==
  /\ ~IsRoot(g, p)
  /\ \A q \in 1..Len(g.passes) : OutputsOf(g, p) \cap InputsOf(g, q) = {}

\* C3: dead pass elimination. After compile() no pass remains whose outputs are
\* all transient (or resolve to nothing) and are read by no pass of the graph,
\* and every pass that writes a resolving non-transient resource remains.
C3_DeadPassElimination ==
  phase = "compiled" =>
    /\ \A p \in 1..Len(pre.passes) :
         IsDeadPass(pre, p) => pre.passes[p].name \notin PassNamesOf(fg)
    /\ \A p \in 1..Len(pre.passes) :
         IsRoot(pre, p) => pre.passes[p].name \in PassNamesOf(fg)

\* a dead pass was dropped next to a root that was kept
C3_Witness ==
  /\ phase = "compiled"
  /\ \E p \in 1..Len(pre.passes) :
       /\ IsDeadPass(pre, p)
       /\ pre.passes[p].outputs # <<>>
       /\ \A name \in OutputsOf(pre, p) : Resolves(pre, name)
  /\ \E p \in 1..Len(pre.passes) : IsRoot(pre, p)
  /\ Len(fg.passes) = 1


(***************************************************************************)
(* Claims about compile() followed by execute(), checked under SpecExec    *)
(***************************************************************************)
\* s can be got from t by deleting elements
RECURSIVE IsSubsequence(_, _)
IsSubsequence(s, t) ==
  IF s = <<>> THEN TRUE
  ELSE IF t = <<>> THEN FALSE
  ELSE IF Head(s) = Head(t) THEN IsSubsequence(Tail(s), Tail(t))
  ELSE IsSubsequence(s, Tail(t))

IsCallback(e) == e.op = "callback"

\* the passes whose callback ran, in the order of the runs
CallbackOrder == [k \in DOMAIN SelectSeq(log, IsCallback) |-> SelectSeq(log, IsCallback)[k].pass]

\* the surviving passes that hold a callback, in pass order
RECURSIVE PassesWithCallback(_, _)
PassesWithCallback(g, i) ==
  IF i > Len(g.passes) THEN <<>>
  ELSE (IF g.passes[i].executeFunc.set THEN <<i>> ELSE <<>>) \o PassesWithCallback(g, i + 1)

\* C4: the pass sequence after compile() is a subsequence of the pass sequence
\* before it, in the original relative order, and execute() runs the callback
\* of each surviving pass exactly once, in that order.
C4_StableSubsequenceAndOrder ==
  /\ phase \in {"compiled", "executed"} => IsSubsequence(fg.passes, pre.passes)
  /\ phase = "executed" => CallbackOrder = PassesWithCallback(fg, 1)

\* two declared passes both survived and both callbacks ran
C4_Witness ==
  /\ phase = "executed"
  /\ Len(pre.passes) = 2
  /\ Len(fg.passes) = 2
  /\ CallbackOrder = <<1, 2>>

\* the place of a log entry within its pass
Rank(e) ==
  IF e.op = "transitionResource" THEN (IF e.kind = "input" THEN 1 ELSE 2)
  ELSE IF e.op = "callback" THEN 3
  ELSE 4

\* C5: during execute() every transitionResource request of a pass comes after
\* everything of the passes before it (their submission included), before the
\* pass's callback and before its executeCommands submission, and the input
\* transitions of a pass come before its output transitions.
C5_TransitionsBeforeRecording ==
  phase = "executed" =>
    \A a \in DOMAIN log, b \in DOMAIN log :
      a < b => \/ log[a].pass < log[b].pass
               \/ (log[a].pass = log[b].pass /\ Rank(log[a]) <= Rank(log[b]))

\* the second pass requests an input and an output transition, runs its
\* callback and submits, after the first pass submitted
C5_Witness ==
  /\ phase = "executed"
  /\ \E a, b, c, d, e \in DOMAIN log :
       /\ a < b /\ b < c /\ c < d /\ d < e
       /\ log[a].op = "executeCommands" /\ log[a].pass = 1
       /\ log[b].op = "transitionResource" /\ log[b].kind = "input" /\ log[b].pass = 2
       /\ log[c].op = "transitionResource" /\ log[c].kind = "output" /\ log[c].pass = 2
       /\ log[d].op = "callback" /\ log[d].pass = 2
       /\ log[e].op = "executeCommands" /\ log[e].pass = 2

\* what the callback of pass i of g appends
AppendedBy(g, i) == IF g.passes[i].executeFunc.set THEN g.passes[i].executeFunc.cmds ELSE <<>>

\* C7: the command array of each executeCommands call holds exactly the
\* commands the current pass's callback appended, in append order, none carried
\* over from an earlier pass, and a pass whose callback appended nothing makes no
\* executeCommands call.
C7_SubmissionIsThisPassOnly ==
  phase = "executed" =>
    /\ \A k \in DOMAIN log :
         log[k].op = "executeCommands" =>
           /\ log[k].cmds = AppendedBy(fg, log[k].pass)
           /\ log[k].cmds # <<>>
    /\ \A i \in 1..Len(fg.passes) :
         Cardinality({k \in DOMAIN log : log[k].op = "executeCommands" /\ log[k].pass = i})
           = IF AppendedBy(fg, i) = <<>> THEN 0 ELSE 1

\* a pass that submitted two commands is followed by a pass whose callback ran
\* and appended nothing
C7_Witness ==
  /\ phase = "executed"
  /\ Len(fg.passes) = 2
  /\ Len(AppendedBy(fg, 1)) = 2
  /\ fg.passes[2].executeFunc = Func(<<>>)
  /\ \E k \in DOMAIN log : log[k].op = "executeCommands" /\ log[k].pass = 1
  /\ \E k \in DOMAIN log : log[k].op = "callback" /\ log[k].pass = 2


(***************************************************************************)
(* Claims about FrameGraphBuilder::build(), checked under SpecBuild        *)
(***************************************************************************)
IsBackendCall(e) == e.op # "callback"

\* the calls the GraphicsContext received, in order
BackendCalls == SelectSeq(log, IsBackendCall)

\* the single root pass scenario: the FrameGraph holds a non-transient
\* "Swapchain" with a valid ID, and the builder declares the one pass
\* "ClearScreen" that writes "Swapchain" and submits one CLEAR command
SingleRootPassScenario ==
  /\ builder.passes = <<BuilderPassEntry("ClearScreen", <<WriteCall("Swapchain")>>,
                                          ClearScreenFunc)>>
  /\ "Swapchain" \notin DOMAIN builder.resources
  /\ Resolves(pre, "Swapchain")
  /\ ~pre.resources["Swapchain"].transient
  /\ isValid(pre.resources["Swapchain"].resourceID)

\* C6: in the single root pass scenario the FrameGraph has exactly 1 pass after
\* build(), and execute() makes exactly one transitionResource request, to
\* SHADER_WRITE for the Swapchain ID, followed by exactly one executeCommands
\* call with one command of type CLEAR, and no other backend call.
C6_SingleRootPass ==
  /\ (phase \in {"built", "executed"} /\ SingleRootPassScenario)
       => (Len(fg.passes) = 1 /\ Len(built.passes) = 1)
  /\ (phase = "executed" /\ SingleRootPassScenario)
       => /\ Len(BackendCalls) = 2
          /\ BackendCalls[1].op = "transitionResource"
          /\ BackendCalls[1].new = "SHADER_WRITE"
          /\ BackendCalls[1].id = pre.resources["Swapchain"].resourceID
          /\ BackendCalls[2].op = "executeCommands"
          /\ getCommandCount(BackendCalls[2].cmds) = 1
          /\ BackendCalls[2].cmds[1].type = "CLEAR"

\* the scenario was built and executed
C6_Witness ==
  /\ phase = "executed"
  /\ SingleRootPassScenario
  /\ Len(log) = 3

\* C8: after build() every RenderPass appended to the FrameGraph has the inputs
\* and the outputs that the pass's setup function declared through
\* PassBuilder::read and PassBuilder::write.
C8_ListsCaptured ==
  phase \in {"built", "executed"} =>
    /\ Len(pre.passes) = Len(builder.passes)
    /\ \A k \in 1..Len(builder.passes) :
         /\ pre.passes[k].inputs = builder.passes[k].inputs
         /\ pre.passes[k].outputs = builder.passes[k].outputs

\* C9: after build(), for every declared pass P, P is in the consumer list of
\* every resource of the FrameGraph that a name P reads resolves to, and every
\* resource that a name P writes resolves to has a producer that writes it;
\* for resources the FrameGraph held before build() and for resources declared
\* on the builder. Read in the most lenient way: any pointer the resource holds
\* counts as the pass.
C9_ProducersAndConsumersWired ==
  phase \in {"built", "executed"} =>
    \A k \in 1..Len(builder.passes) :
      /\ \A n \in Range(builder.passes[k].inputs) :
           Resolves(fg, n) => fg.resources[n].consumers # <<>>
      /\ \A n \in Range(builder.passes[k].outputs) :
           Resolves(fg, n) => fg.resources[n].producer # NullPtr

(***************************************************************************)
(* Claims about the copy constructor, checked under SpecCopy               *)
(***************************************************************************)
\* ptr points to a pass of the pass sequence of the copy
IsOwnPass(ptr) ==
  ptr.kind = "vec" /\ ptr.owner = "built" /\ ptr.idx \in 1..Len(built.passes)

\* C10: in a copy-constructed FrameGraph, for every resource, the producer and
\* all consumers are passes of the copy's own pass sequence, the producer has
\* the name of the source resource's producer (null when the source has none),
\* and the consumer list has the length and the names, in order, of the source
\* resource's consumer list.
C10_CopyRepointsByName ==
  phase = "copied" =>
    \A n \in DOMAIN built.resources :
      LET copied == built.resources[n]
          source == fg.resources[n]
      IN /\ copied.producer = NullPtr \/ IsOwnPass(copied.producer)
         /\ \A k \in DOMAIN copied.consumers : IsOwnPass(copied.consumers[k])
         /\ source.producer = NullPtr => copied.producer = NullPtr
         /\ source.producer # NullPtr =>
              /\ IsOwnPass(copied.producer)
              /\ built.passes[copied.producer.idx].name = NameThrough(fg, source.producer, <<>>)
         /\ Len(copied.consumers) = Len(source.consumers)
         /\ \A k \in DOMAIN source.consumers :
              k \in DOMAIN copied.consumers /\ IsOwnPass(copied.consumers[k])
                => built.passes[copied.consumers[k].idx].name
                     = NameThrough(fg, source.consumers[k], <<>>)

(***************************************************************************)
(* SpecConsumers: addConsumer called on one RenderResource with null and   *)
(* with the addresses of the caller's RenderPass objects                   *)
(***************************************************************************)
ConsumerPtrs == {NullPtr} \cup {ExtPtr(PassNameSeq[k]) : k \in 1..MaxConsumerPasses}

\* resource.addConsumer(ptr)
AddConsumerCall(ptr) ==
  /\ Len(addCalls) < MaxAddCalls
  /\ renderResource' = addConsumer(renderResource, ptr)
  /\ addCalls' = Append(addCalls, ptr)
  /\ UNCHANGED <<graphVars, declared, passBuilderVars, commandVars, idVars, registryVars, configVars,
                 laterVars>>

NextConsumers == \E ptr \in ConsumerPtrs : AddConsumerCall(ptr)

SpecConsumers == Init /\ [][NextConsumers]_vars

(***************************************************************************)
(* SpecPassBuilder: read and write called on one PassBuilder, in any order *)
(***************************************************************************)
\* passBuilder.read(name)
ReadStep(name) ==
  /\ Len(setupCalls) < MaxSetupCalls
  /\ setupPassBuilder' = read(setupPassBuilder, name)
  /\ setupCalls' = Append(setupCalls, ReadCall(name))
  /\ UNCHANGED <<graphVars, declared, consumerVars, commandVars, idVars, registryVars, configVars,
                 laterVars>>

\* passBuilder.write(name)
WriteStep(name) ==
  /\ Len(setupCalls) < MaxSetupCalls
  /\ setupPassBuilder' = write(setupPassBuilder, name)
  /\ setupCalls' = Append(setupCalls, WriteCall(name))
  /\ UNCHANGED <<graphVars, declared, consumerVars, commandVars, idVars, registryVars, configVars,
                 laterVars>>

NextPassBuilder ==
  \/ \E name \in ResourceNames : ReadStep(name)
  \/ \E name \in ResourceNames : WriteStep(name)

SpecPassBuilder == Init /\ [][NextPassBuilder]_vars

(***************************************************************************)
(* Claims about RenderResource::addConsumer, checked under SpecConsumers   *)
(***************************************************************************)
\* the non-null pointers of calls, each at its first occurrence
RECURSIVE FirstInsertions(_)
FirstInsertions(calls) ==
  IF calls = <<>> THEN <<>>
  ELSE LET front == FirstInsertions(SubSeq(calls, 1, Len(calls) - 1))
           last == calls[Len(calls)]
       IN IF last = NullPtr \/ last \in Range(front) THEN front ELSE Append(front, last)

NoDuplicates(s) == \A i, j \in DOMAIN s : s[i] = s[j] => i = j

\* C11: addConsumer(null) leaves the consumer list unchanged, addConsumer(p)
\* with p already in the list leaves it unchanged, otherwise p is appended at
\* the end; after any sequence of addConsumer calls the consumer list holds no
\* null and no duplicate and is in first-insertion order.
C11_AddConsumerIdempotentNullSafe ==
  /\ renderResource.consumers = FirstInsertions(addCalls)
  /\ NoDuplicates(renderResource.consumers)
  /\ NullPtr \notin Range(renderResource.consumers)
  /\ \A ptr \in ConsumerPtrs :
       LET after == addConsumer(renderResource, ptr)
       IN IF ptr = NullPtr \/ ptr \in Range(renderResource.consumers)
          THEN after = renderResource
          ELSE after = [renderResource EXCEPT !.consumers = Append(@, ptr)]

\* null was passed, a pass was passed twice, and two passes are consumers
C11_Witness ==
  /\ NullPtr \in Range(addCalls)
  /\ ~NoDuplicates(SelectSeq(addCalls, LAMBDA ptr : ptr # NullPtr))
  /\ Len(renderResource.consumers) = 2

(***************************************************************************)
(* Claims about PassBuilder, checked under SpecPassBuilder                 *)
(***************************************************************************)
\* C12: after any sequence of read and write calls on one PassBuilder no name
\* occurs more than once in the inputs list and no name occurs more than once
\* in the outputs list.
C12_ReadWriteIdempotent ==
  /\ NoDuplicates(setupPassBuilder.inputs)
  /\ NoDuplicates(setupPassBuilder.outputs)

\* C13: after any sequence of read and write calls on one PassBuilder, in any
\* order, no resource name is in both its inputs list and its outputs list.
C13_NoSelfDependency ==
  Range(setupPassBuilder.inputs) \cap Range(setupPassBuilder.outputs) = {}

(***************************************************************************)
(* SpecDeclare: createTexture, createBuffer and importResource called on   *)
(* one FrameGraphBuilder                                                   *)
(***************************************************************************)
\* a call and the RenderResource it constructs for the name
DeclareCall(op, name, constructed) == [op |-> op, name |-> name, resource |-> constructed]

\* builder.createTexture(name, desc)
DeclareTexture(name) ==
  /\ Len(declared) < MaxDeclarations
  /\ builder' = createTexture(builder, name, IDOf(name))
  /\ declared' = Append(declared, DeclareCall("createTexture", name,
                                            ResourceFromID(IDOf(name))))
  /\ UNCHANGED <<phase, fg, pre, log, built, unitVars>>

\* builder.createBuffer(name, desc)
DeclareBuffer(name) ==
  /\ Len(declared) < MaxDeclarations
  /\ builder' = createBuffer(builder, name)
  /\ declared' = Append(declared, DeclareCall("createBuffer", name,
                                            ResourceFromDesc("UNDEFINED", FALSE)))
  /\ UNCHANGED <<phase, fg, pre, log, built, unitVars>>

\* builder.importResource(name, rID)
DeclareImport(name, hasDesc) ==
  /\ Len(declared) < MaxDeclarations
  /\ builder' = importResource(builder, name, IDOf(name), hasDesc)
  /\ declared' = Append(declared, DeclareCall("importResource", name,
                         IF hasDesc THEN ResourceFromDesc("UNDEFINED", FALSE)
                         ELSE ResourceFromID(IDOf(name))))
  /\ UNCHANGED <<phase, fg, pre, log, built, unitVars>>

NextDeclare ==
  \/ \E name \in ResourceNames : DeclareTexture(name)
  \/ \E name \in ResourceNames : DeclareBuffer(name)
  \/ \E name \in ResourceNames, hasDesc \in BOOLEAN : DeclareImport(name, hasDesc)

SpecDeclare == Init /\ [][NextDeclare]_vars

(***************************************************************************)
(* Claims about the builder's resource map, checked under SpecDeclare      *)
(***************************************************************************)
DeclaredNames == {declared[k].name : k \in DOMAIN declared}

\* the index of the last call that declared name n
LastDeclaration(n) ==
  CHOOSE k \in DOMAIN declared :
    declared[k].name = n /\ \A j \in DOMAIN declared : declared[j].name = n => j <= k

\* C14: after any sequence of createTexture, createBuffer and importResource
\* calls on one builder, the builder's resource map has exactly one entry per
\* distinct name used, the entry of the last call with that name, so its size
\* is the number of distinct names.
C14_OneEntryPerName ==
  /\ DOMAIN builder.resources = DeclaredNames
  /\ Cardinality(DOMAIN builder.resources) = Cardinality(DeclaredNames)
  /\ \A n \in DeclaredNames :
       builder.resources[n] = declared[LastDeclaration(n)].resource

\* one name was declared twice, by different calls storing different resources
C14_Witness ==
  \E j, k \in DOMAIN declared :
    /\ j < k
    /\ declared[j].name = declared[k].name
    /\ declared[j].resource # declared[k].resource
    /\ Cardinality(DOMAIN builder.resources) < Len(declared)

(***************************************************************************)
(* SpecCommands: submit<ClearCommandData>, submit<DrawCommandData> and     *)
(* sort() called on one RenderCommandBuffer                                *)
(***************************************************************************)
\* enum class RenderCommandType, in enumeration order
RenderCommandTypes ==
  <<"CLEAR", "DRAW", "DRAW_INDEXED", "DISPATCH", "COPY", "SET_VIEWPORT", "SET_SCISSOR">>

\* static_cast<uint8_t>(type)
TypeValue(type) == (CHOOSE k \in DOMAIN RenderCommandTypes : RenderCommandTypes[k] = type) - 1

\* the types the callers of SpecCommands pass to submit with a ClearCommandData
ClearSubmitTypes == {"CLEAR", "DRAW"}

\* the types the callers of SpecCommands pass to submit with a DrawCommandData
DrawSubmitTypes == {"DRAW", "DRAW_INDEXED"}

\* ClearCommandData, told apart by its flags
ClearCommandData(flags) == [flags |-> flags]

\* DrawCommandData, told apart by its mesh and by materialID.index
DrawCommandData(mesh, materialIndex) == [mesh |-> mesh, materialIndex |-> materialIndex]

ClearDatas == {ClearCommandData("COLOR"), ClearCommandData("DEPTH")}

DrawDatas == {DrawCommandData(mesh, m) : mesh \in {"cube", "sphere"}, m \in 0..MaxMaterialIndex}

\* submit<ClearCommandData>(type, data): cmd.type = type; cmd.clearData = data
submitClearCommandData(commands, type, data) ==
  submit(commands, [type |-> type, payload |-> "clearData", data |-> data])

\* submit<DrawCommandData>(type, data): cmd.type = type; cmd.drawData = data
submitDrawCommandData(commands, type, data) ==
  submit(commands, [type |-> type, payload |-> "drawData", data |-> data])

DrawTypes == {"DRAW", "DRAW_INDEXED"}

\* the positions whose drawData the comparator of sort() reads while the clear
\* payload is the active member of the union
Mistagged(commands) ==
  {k \in DOMAIN commands : commands[k].type \in DrawTypes /\ commands[k].payload # "drawData"}

\* lhs.drawData.materialID.index as the comparator reads it: the stored index,
\* or for an inactive drawData whatever the bytes of the clear payload give
ReadMaterialIndex(commands, alias, k) ==
  IF commands[k].payload = "drawData" THEN commands[k].data.materialIndex ELSE alias[k]

\* a comparator that looks at the type only
RenderCommandLessByType(commands, alias, l, r) ==
  commands[l].type # commands[r].type
    /\ TypeValue(commands[l].type) < TypeValue(commands[r].type)

\* the lambda of sort(), on the commands at positions l and r
RenderCommandLess(commands, alias, l, r) ==
  IF commands[l].type # commands[r].type
  THEN TypeValue(commands[l].type) < TypeValue(commands[r].type)
  ELSE IF commands[l].type \in DrawTypes
       THEN ReadMaterialIndex(commands, alias, l) < ReadMaterialIndex(commands, alias, r)
       ELSE FALSE

\* stable insertion of position p into the sorted positions: before the first
\* position that p is less than
RECURSIVE StableInsert(_, _, _, _)
StableInsert(commands, alias, sortedPositions, p) ==
  IF sortedPositions = <<>> THEN <<p>>
  ELSE IF RenderCommandLess(commands, alias, p, Head(sortedPositions))
       THEN <<p>> \o sortedPositions
       ELSE <<Head(sortedPositions)>> \o StableInsert(commands, alias, Tail(sortedPositions), p)

\* boost::range::stable_sort: the positions 1..n of commands in sorted order
RECURSIVE StableSortPositions(_, _, _)
StableSortPositions(commands, alias, n) ==
  IF n = 0 THEN <<>>
  ELSE StableInsert(commands, alias, StableSortPositions(commands, alias, n - 1), n)

\* RenderCommandBuffer::sort
sort(commands, alias) ==
  LET positions == StableSortPositions(commands, alias, Len(commands))
  IN [k \in DOMAIN commands |-> commands[positions[k]]]

\* commandBuffer.submit(type, ClearCommandData)
SubmitClear(type, data) ==
  /\ Len(m_commands) < MaxCommands
  /\ m_commands' = submitClearCommandData(m_commands, type, data)
  /\ unsorted' = <<>>
  /\ UNCHANGED <<graphVars, declared, consumerVars, passBuilderVars, idVars, registryVars,
                 configVars, laterVars>>

\* commandBuffer.submit(type, DrawCommandData)
SubmitDraw(type, data) ==
  /\ Len(m_commands) < MaxCommands
  /\ m_commands' = submitDrawCommandData(m_commands, type, data)
  /\ unsorted' = <<>>
  /\ UNCHANGED <<graphVars, declared, consumerVars, passBuilderVars, idVars, registryVars,
                 configVars, laterVars>>

\* commandBuffer.sort(); unsorted keeps the buffer as it was on entry
Sort ==
  /\ unsorted = <<>>
  /\ \E alias \in [Mistagged(m_commands) -> 0..MaxMaterialIndex] :
       m_commands' = sort(m_commands, alias)
  /\ unsorted' = <<m_commands>>
  /\ UNCHANGED <<graphVars, declared, consumerVars, passBuilderVars, idVars, registryVars,
                 configVars, laterVars>>

\* commandBuffer.clear()
ClearBuffer ==
  /\ m_commands # <<>>
  /\ m_commands' = clear(m_commands)
  /\ unsorted' = <<>>
  /\ UNCHANGED <<graphVars, declared, consumerVars, passBuilderVars, idVars, registryVars,
                 configVars, laterVars>>

NextCommands ==
  \/ \E type \in ClearSubmitTypes, data \in ClearDatas : SubmitClear(type, data)
  \/ \E type \in DrawSubmitTypes, data \in DrawDatas : SubmitDraw(type, data)
  \/ Sort
  \/ ClearBuffer

SpecCommands == Init /\ [][NextCommands]_vars

(***************************************************************************)
(* Claims about RenderCommandBuffer, checked under SpecCommands            *)
(***************************************************************************)
\* C15: for every command stored in a RenderCommandBuffer after any sequence of
\* submit calls, the active payload is the one the command's type selects: the
\* clear payload for CLEAR, the draw payload for DRAW and DRAW_INDEXED.
C15_PayloadSelectedByType ==
  \A k \in DOMAIN m_commands :
    /\ m_commands[k].type = "CLEAR" => m_commands[k].payload = "clearData"
    /\ m_commands[k].type \in DrawTypes => m_commands[k].payload = "drawData"

HasMaterialIndex(cmd) == cmd.type \in DrawTypes /\ cmd.payload = "drawData"

\* two commands that the sort is said to keep in their relative order: of the
\* same type and, when the type is DRAW or DRAW_INDEXED, of equal material index
KeepOrder(a, b) ==
  /\ a.type = b.type
  /\ a.type \in DrawTypes =>
       /\ HasMaterialIndex(a) /\ HasMaterialIndex(b)
       /\ a.data.materialIndex = b.data.materialIndex

Bijections(n) == {f \in [1..n -> 1..n] : \A i, j \in 1..n : f[i] = f[j] => i = j}

\* C16: sort() yields a permutation of the buffer's commands, ordered by
\* non-decreasing type (enumeration order) and, among the commands of type DRAW
\* and among those of type DRAW_INDEXED, by non-decreasing material index; two
\* DRAW (or DRAW_INDEXED) commands of equal material index, and two commands of
\* one other type, keep their relative order.
C16_SortStableByTypeThenMaterial ==
  unsorted # <<>> =>
    LET before == unsorted[1]
        after == m_commands
    IN /\ Len(after) = Len(before)
       /\ \E to \in Bijections(Len(before)) :
            /\ \A k \in DOMAIN before : after[to[k]] = before[k]
            /\ \A i, j \in DOMAIN before :
                 i < j /\ KeepOrder(before[i], before[j]) => to[i] < to[j]
       /\ \A i, j \in DOMAIN after :
            i < j =>
              /\ TypeValue(after[i].type) <= TypeValue(after[j].type)
              /\ (after[i].type = after[j].type
                  /\ HasMaterialIndex(after[i]) /\ HasMaterialIndex(after[j]))
                   => after[i].data.materialIndex <= after[j].data.materialIndex

\* a buffer that sort() had to reorder by type and by material index, with two
\* commands of one type and equal key in it
C16_Witness ==
  /\ unsorted # <<>>
  /\ m_commands # unsorted[1]
  /\ \E i, j \in DOMAIN m_commands :
       /\ i < j
       /\ m_commands[i] # m_commands[j]
       /\ KeepOrder(m_commands[i], m_commands[j])
  /\ \E i, j \in DOMAIN m_commands :
       /\ m_commands[i].type = "DRAW" /\ m_commands[j].type = "DRAW"
       /\ HasMaterialIndex(m_commands[i]) /\ HasMaterialIndex(m_commands[j])
       /\ m_commands[i].data.materialIndex < m_commands[j].data.materialIndex

(***************************************************************************)
(* SpecID: two ResourceID values made by create and invalid. A uint32_t is  *)
(* written as the 32-bit two's complement integer of the same bit pattern:  *)
(* 0xFFFFFFFF is -1, 0xFFFFFFFE is -2.                                      *)
(***************************************************************************)
\* the index values passed to create: small ones, the largest valid one and INVALID_INDEX
Indices == 0..MaxIndex \cup {INVALID_INDEX - 1, INVALID_INDEX}

\* the generation values passed to create: small ones and the largest
Generations == 0..MaxGeneration \cup {INVALID_INDEX}

\* idA = ResourceID::create(idx, gen)
CreateA(idx, gen) ==
  /\ idA' = create(idx, gen)
  /\ UNCHANGED <<idB, graphVars, declared, consumerVars, passBuilderVars, commandVars,
                 registryVars, configVars, laterVars>>

\* idB = ResourceID::create(idx, gen)
CreateB(idx, gen) ==
  /\ idB' = create(idx, gen)
  /\ UNCHANGED <<idA, graphVars, declared, consumerVars, passBuilderVars, commandVars,
                 registryVars, configVars, laterVars>>

\* idA = ResourceID::invalid()
InvalidA ==
  /\ idA' = invalid
  /\ UNCHANGED <<idB, graphVars, declared, consumerVars, passBuilderVars, commandVars,
                 registryVars, configVars, laterVars>>

NextID ==
  \/ \E idx \in Indices, gen \in Generations : CreateA(idx, gen)
  \/ \E idx \in Indices, gen \in Generations : CreateB(idx, gen)
  \/ InvalidA

SpecID == Init /\ [][NextID]_vars

(***************************************************************************)
(* SpecRegistry: registerResource called on a ResourceRegistry. The        *)
(* counter is a 32-bit unsigned integer, written in two's complement as in *)
(* SpecID. A run starts with the counter at 0, or at 0xFFFFFFFE as it is   *)
(* after 2^32 - 2 registrations; returned holds the IDs returned since.    *)
(***************************************************************************)
\* x + 1 on a uint32_t
Inc32(x) == IF x = 2147483647 THEN -2147483647 - 1 ELSE x + 1

\* a < b on two uint32_t
U32Less(a, b) ==
  IF (a >= 0) = (b >= 0) THEN a < b ELSE a >= 0

\* the values of g_resourceIdCounter a run starts from
CounterStarts == {0, INVALID_INDEX - 1}

ResourceTypes == {"BUFFER", "TEXTURE", "MESH", "MATERIAL"}

InitRegistry ==
  /\ GraphInit
  /\ ConsumerInit
  /\ PassBuilderInit
  /\ CommandInit
  /\ IDInit
  /\ ConfigInit
  /\ LaterInit
  /\ counter \in CounterStarts
  /\ returned = <<>>
  /\ resourceTypes = <<>>

\* ResourceRegistry::registerResource(type)
RegisterResourceType(type) ==
  /\ Len(returned) < MaxRegistrations
  /\ LET index == counter
         resourceId == [index |-> index, generation |-> 1]
     IN /\ counter' = Inc32(counter)
        /\ resourceTypes' = PutResource(resourceTypes, resourceId, type)
        /\ returned' = Append(returned, resourceId)
  /\ UNCHANGED <<graphVars, declared, consumerVars, passBuilderVars, commandVars, idVars,
                 configVars, laterVars>>

NextRegistry == \E type \in ResourceTypes : RegisterResourceType(type)

SpecRegistry == InitRegistry /\ [][NextRegistry]_vars

(***************************************************************************)
(* Claims about ResourceID, checked under SpecID                           *)
(***************************************************************************)
\* C17: create(i, g).isValid() holds iff i # INVALID_INDEX, whatever g is; two
\* ResourceIDs are equal iff index and generation are both equal, so two IDs of
\* the same index and different generations are unequal; invalid() equals
\* invalid() and is not valid.
C17_ValidityAndEquality ==
  /\ \A id \in {idA, idB} : isValid(id) <=> id.index # INVALID_INDEX
  /\ equals(idA, idB) <=> (idA.index = idB.index /\ idA.generation = idB.generation)
  /\ notEquals(idA, idB) <=> ~equals(idA, idB)
  /\ (idA.index = idB.index /\ idA.generation # idB.generation) => notEquals(idA, idB)
  /\ equals(invalid, invalid)
  /\ ~isValid(invalid)
  /\ \A gen \in Generations : ~isValid(create(INVALID_INDEX, gen))

\* two valid IDs of one index and different generations, one of them with the
\* largest generation
C17_Witness ==
  /\ isValid(idA) /\ isValid(idB)
  /\ idA.index = idB.index
  /\ idA.generation = INVALID_INDEX
  /\ idB.generation = 1

(***************************************************************************)
(* Claims about ResourceRegistry, checked under SpecRegistry               *)
(***************************************************************************)
\* C18: every registerResource call returns a valid ResourceID of the initial
\* generation whose index is strictly greater (as a uint32_t) than the index of
\* every ID returned by an earlier call, for any number of registrations.
C18_FreshValidIndex ==
  \A k \in DOMAIN returned :
    /\ isValid(returned[k])
    /\ returned[k].generation = 1
    /\ \A j \in 1..(k - 1) : U32Less(returned[j].index, returned[k].index)

(***************************************************************************)
(* SpecConfig: Config driven by one thread: the file on disk is rewritten, *)
(* init(), onValueChanged(), onAnyValueChanged(), removeCallback() and     *)
(* reload() are called. A key in dot notation is written as the sequence   *)
(* of its parts: "app.name" is <<"app", "name">>, "" is <<>>.              *)
(***************************************************************************)
\* the keys callbacks are registered for
WatchedKeys == {<<"app", "name">>, <<"width">>}

\* Config::flattenJSON: the <<key, value>> pairs of the leaves under json, the
\* key of a nested member being prefix.member
RECURSIVE FlattenPairs(_, _)
FlattenPairs(json, prefix) ==
  IF json.kind # "object" THEN {}
  ELSE UNION { IF json.members[k].kind = "object"
               THEN FlattenPairs(json.members[k], Append(prefix, k))
               ELSE {<<Append(prefix, k), json.members[k]>>} : k \in DOMAIN json.members }

\* the unordered_map flattenJSON fills
flattenJSON(json) ==
  LET pairs == FlattenPairs(json, <<>>)
  IN [key \in {pair[1] : pair \in pairs} |->
        (CHOOSE pair \in pairs : pair[1] = key)[2]]

\* Config::getJsonValue: the value at a key in dot notation, null when a part is missing
RECURSIVE getJsonValue(_, _)
getJsonValue(json, key) ==
  IF key = <<>> THEN json
  ELSE IF json.kind = "object" /\ Head(key) \in DOMAIN json.members
       THEN IF Len(key) > 1 /\ json.members[Head(key)].kind # "object" THEN JsonNull
            ELSE getJsonValue(json.members[Head(key)], Tail(key))
       ELSE JsonNull

\* Config::loadFromFile: s_configData after the call and the value returned
loadFromFile(path, file, current) ==
  IF path = "" \/ file.status # "json"
  THEN [ok |-> FALSE, data |-> current]
  ELSE [ok |-> TRUE, data |-> file.json]

\* one call callbackInfo.callback(key, value)
Invocation(handle, key, value) == [handle |-> handle, key |-> key, value |-> value]

\* Config.cc 337-355: the callbacks registered for key, in list order
RECURSIVE NotifyKey(_, _, _)
NotifyKey(cbs, key, value) ==
  IF cbs = <<>> THEN <<>>
  ELSE (IF Head(cbs).key = key THEN <<Invocation(Head(cbs).handle, key, value)>> ELSE <<>>)
       \o NotifyKey(Tail(cbs), key, value)

\* Config.cc 333-356: every key of changedValues, in the iteration order of the map
RECURSIVE NotifyKeys(_, _, _)
NotifyKeys(cbs, changedValues, keyOrder) ==
  IF keyOrder = <<>> THEN <<>>
  ELSE NotifyKey(cbs, Head(keyOrder), changedValues[Head(keyOrder)])
       \o NotifyKeys(cbs, changedValues, Tail(keyOrder))

\* Config.cc 361-377: one "any change" callback, called for every key of changedValues
RECURSIVE NotifyEvery(_, _, _)
NotifyEvery(cb, changedValues, keyOrder) ==
  IF keyOrder = <<>> THEN <<>>
  ELSE <<Invocation(cb.handle, Head(keyOrder), changedValues[Head(keyOrder)])>>
       \o NotifyEvery(cb, changedValues, Tail(keyOrder))

\* Config.cc 359-379: the "any change" callbacks, in list order
RECURSIVE NotifyAny(_, _, _)
NotifyAny(cbs, changedValues, keyOrder) ==
  IF cbs = <<>> THEN <<>>
  ELSE (IF Head(cbs).key = <<>> THEN NotifyEvery(Head(cbs), changedValues, keyOrder)
        ELSE <<>>)
       \o NotifyAny(Tail(cbs), changedValues, keyOrder)

\* Config::notifyCallbacks: the invocations it makes, in order. keyOrder is the
\* order in which the unordered_map is iterated.
notifyCallbacks(cbs, changedValues, keyOrder) ==
  IF DOMAIN changedValues = {} THEN <<>>
  ELSE NotifyKeys(cbs, changedValues, keyOrder) \o NotifyAny(cbs, changedValues, keyOrder)

\* the orders in which the keys of an unordered_map can be iterated
KeyOrders(changedValues) ==
  {order \in NoDupSeqs(DOMAIN changedValues) : Len(order) = Cardinality(DOMAIN changedValues)}

\* a removeCallback that reports the callback found and leaves it in the list
removeCallbackWithoutErase(cbs, handle) ==
  [callbacks |-> cbs, result |-> \E k \in DOMAIN cbs : cbs[k].handle = handle]

\* Config::removeCallback: find_if by handle, erase the callback found
removeCallback(cbs, handle) ==
  IF \E k \in DOMAIN cbs : cbs[k].handle = handle
  THEN LET found == CHOOSE k \in DOMAIN cbs :
                      cbs[k].handle = handle /\ \A j \in 1..(k - 1) : cbs[j].handle # handle
       IN [callbacks |-> SubSeq(cbs, 1, found - 1) \o SubSeq(cbs, found + 1, Len(cbs)),
           result |-> TRUE]
  ELSE [callbacks |-> cbs, result |-> FALSE]

\* the configuration file is written, replaced by text that does not parse, or deleted
WriteFile(file) ==
  /\ configFile' = file
  /\ UNCHANGED <<configFilePath, configData, previousConfigData, callbacks,
                 nextCallbackHandle, lastCall, removedCallbacks>>
  /\ UNCHANGED <<graphVars, declared, consumerVars, passBuilderVars, commandVars, idVars,
                 registryVars, laterVars>>

\* Config::init(configFilePath, watchForChanges = false)
InitCall ==
  /\ configFilePath' = "config.json"
  /\ LET loaded == loadFromFile(configFilePath', configFile, configData)
     IN /\ configData' = loaded.data
        /\ previousConfigData' = IF loaded.ok THEN loaded.data ELSE previousConfigData
        /\ lastCall' = [op |-> "init", result |-> loaded.ok]
  /\ UNCHANGED <<configFile, callbacks, nextCallbackHandle, removedCallbacks>>
  /\ UNCHANGED <<graphVars, declared, consumerVars, passBuilderVars, commandVars, idVars,
                 registryVars, laterVars>>

\* Config::onValueChanged(key, callback); Config::onAnyValueChanged(callback) is
\* the same with the empty key
OnValueChanged(key) ==
  /\ nextCallbackHandle <= MaxCallbacks
  /\ callbacks' = Append(callbacks, [key |-> key, handle |-> nextCallbackHandle])
  /\ nextCallbackHandle' = nextCallbackHandle + 1
  /\ lastCall' = [op |-> "onValueChanged", result |-> nextCallbackHandle]
  /\ UNCHANGED <<configFile, configFilePath, configData, previousConfigData,
                 removedCallbacks>>
  /\ UNCHANGED <<graphVars, declared, consumerVars, passBuilderVars, commandVars, idVars,
                 registryVars, laterVars>>

\* Config::removeCallback(handle)
RemoveCallback(handle) ==
  /\ LET removal == removeCallback(callbacks, handle)
     IN /\ callbacks' = removal.callbacks
        /\ lastCall' = [op |-> "removeCallback", handle |-> handle,
                        result |-> removal.result, before |-> callbacks]
        /\ removedCallbacks' = removedCallbacks \cup
             {callbacks[k] : k \in {j \in DOMAIN callbacks :
                                      callbacks[j] \notin Range(removal.callbacks)}}
  /\ UNCHANGED <<configFile, configFilePath, configData, previousConfigData,
                 nextCallbackHandle>>
  /\ UNCHANGED <<graphVars, declared, consumerVars, passBuilderVars, commandVars, idVars,
                 registryVars, laterVars>>

\* Config::reload()
Reload ==
  /\ previousConfigData' = configData
  /\ LET loaded == loadFromFile(configFilePath, configFile, configData)
         changedValues == flattenJSON(loaded.data)
     IN /\ configData' = loaded.data
        /\ \E keyOrder \in KeyOrders(changedValues) :
             lastCall' = [op |-> "reload", result |-> loaded.ok,
                          calls |-> IF loaded.ok
                                    THEN notifyCallbacks(callbacks, changedValues, keyOrder)
                                    ELSE <<>>]
  /\ UNCHANGED <<configFile, configFilePath, callbacks, nextCallbackHandle,
                 removedCallbacks>>
  /\ UNCHANGED <<graphVars, declared, consumerVars, passBuilderVars, commandVars, idVars,
                 registryVars, laterVars>>

NextConfig ==
  \/ \E json \in Documents : WriteFile(FileHolding(json))
  \/ WriteFile(FileUnparsable)
  \/ InitCall
  \/ \E key \in WatchedKeys \cup {<<>>} : OnValueChanged(key)
  \/ \E handle \in 0..MaxCallbacks : RemoveCallback(handle)
  \/ Reload

SpecConfig == Init /\ [][NextConfig]_vars

(***************************************************************************)
(* Claims about Config, checked under SpecConfig                           *)
(***************************************************************************)
\* the invocations a reload made of the callback with this handle
InvocationsOf(calls, handle) == SelectSeq(calls, LAMBDA call : call.handle = handle)

\* C19: removeCallback(h) returns true and removes the callback exactly when h
\* is the handle of a currently registered callback; otherwise it returns false
\* and leaves the callback list unchanged. A callback that was removed is never
\* invoked by a later reload().
C19_RemoveCallback ==
  /\ lastCall.op = "removeCallback" =>
       LET registered == {k \in DOMAIN lastCall.before :
                            lastCall.before[k].handle = lastCall.handle}
       IN IF registered # {}
          THEN /\ lastCall.result
               /\ Len(callbacks) = Len(lastCall.before) - 1
               /\ \A k \in DOMAIN callbacks : callbacks[k].handle # lastCall.handle
               /\ callbacks = SelectSeq(lastCall.before,
                                        LAMBDA cb : cb.handle # lastCall.handle)
          ELSE ~lastCall.result /\ callbacks = lastCall.before
  /\ \A cb \in removedCallbacks : cb \notin Range(callbacks)
  /\ lastCall.op = "reload" =>
       \A cb \in removedCallbacks : InvocationsOf(lastCall.calls, cb.handle) = <<>>

\* a reload that invoked a callback still registered, after a callback
\* registered for a key the new configuration holds had been removed
C19_Witness ==
  /\ lastCall.op = "reload"
  /\ lastCall.result
  /\ lastCall.calls # <<>>
  /\ \E cb \in removedCallbacks : cb.key \in DOMAIN flattenJSON(configData)

\* C20: a successful reload() invokes a callback registered with
\* onValueChanged(K, cb), with key K and the new value, exactly when the value
\* stored at K after the reload differs from the value stored at K before it,
\* and does not invoke it when the reload leaves the value at K unchanged.
C20_CallbackOnlyOnChange ==
  (lastCall.op = "reload" /\ lastCall.result) =>
    \A k \in DOMAIN callbacks :
      callbacks[k].key # <<>> =>
        LET cb == callbacks[k]
            before == getJsonValue(previousConfigData, cb.key)
            after == getJsonValue(configData, cb.key)
        IN InvocationsOf(lastCall.calls, cb.handle) =
             IF before # after THEN <<Invocation(cb.handle, cb.key, after)>> ELSE <<>>

(***************************************************************************)
(* SpecStates: SpecExec with resources registered in several states        *)
(***************************************************************************)
\* the states the resources of SpecStates are registered in
RegisteredStates == {"SHADER_READ", "SHADER_WRITE"}

\* callbacks of the passes of SpecStates
StateFuncs == { NoFunc, Func(<<DrawCommand("DRAW")>>) }

NextStates ==
  \/ \E ins \in ExecLists, outs \in ExecLists, func \in StateFuncs :
       AddPass(MaxExecPasses, ins, outs, func)
  \/ \E name \in ResourceNames, valid \in BOOLEAN, state \in RegisteredStates :
       RegisterResource(name, IF valid THEN IDOf(name) ELSE invalid, state, FALSE)
  \/ Compile
  \/ Execute

SpecStates == Init /\ [][NextStates]_vars

\* the transitionResource requests of pass i for its inputs / outputs, in order
RequestsOf(i, kind) ==
  SelectSeq(log, LAMBDA e : e.op = "transitionResource" /\ e.pass = i /\ e.kind = kind)

\* the names of a list that resolve to a resource with a valid ResourceID
Transitionable(names) ==
  SelectSeq(names, LAMBDA n : /\ n \in DOMAIN fg.resources
                              /\ fg.resources[n].resourceID.index # INVALID_INDEX)

\* C25: execute() requests a transition to SHADER_READ for an input of a
\* surviving pass exactly when the name resolves, the resource has a valid
\* ResourceID and its state is not SHADER_READ; it requests a transition to
\* SHADER_WRITE for an output exactly when the name resolves and the ID is
\* valid, whatever the state. Other names cause no request and stop neither the
\* pass's callback nor the remaining passes.
C25_TransitionRequests ==
  phase = "executed" =>
    \A i \in 1..Len(fg.passes) :
      LET reads == SelectSeq(Transitionable(fg.passes[i].inputs),
                             LAMBDA n : fg.resources[n].state # "SHADER_READ")
          writes == Transitionable(fg.passes[i].outputs)
      IN /\ Len(RequestsOf(i, "input")) = Len(reads)
         /\ \A k \in DOMAIN reads :
              /\ RequestsOf(i, "input")[k].id = fg.resources[reads[k]].resourceID
              /\ RequestsOf(i, "input")[k].new = "SHADER_READ"
         /\ Len(RequestsOf(i, "output")) = Len(writes)
         /\ \A k \in DOMAIN writes :
              /\ RequestsOf(i, "output")[k].id = fg.resources[writes[k]].resourceID
              /\ RequestsOf(i, "output")[k].new = "SHADER_WRITE"
         /\ fg.passes[i].executeFunc.set =>
              \E k \in DOMAIN log : log[k].op = "callback" /\ log[k].pass = i

\* the first pass reads a resource that is in SHADER_READ and writes a name
\* that resolves to a resource without a valid ID: it requests nothing, its
\* callback runs, and the second pass still requests a transition
C25_Witness ==
  /\ phase = "executed"
  /\ Len(fg.passes) = 2
  /\ fg.passes[1].inputs # <<>> /\ fg.passes[1].outputs # <<>>
  /\ \A k \in DOMAIN log : log[k].op = "transitionResource" => log[k].pass = 2
  /\ \E k \in DOMAIN log : log[k].op = "callback" /\ log[k].pass = 1
  /\ fg.passes[1].inputs[1] \in DOMAIN fg.resources
  /\ isValid(fg.resources[fg.passes[1].inputs[1]].resourceID)
  /\ RequestsOf(2, "input") \o RequestsOf(2, "output") # <<>>

\* the requests execute() made before position k for the resource with this id
EarlierRequests(k, id) ==
  SelectSeq(SubSeq(log, 1, k - 1), LAMBDA e : e.op = "transitionResource" /\ e.id = id)

\* the state a resource is registered in, by its ResourceID
InitialStateOf(id) ==
  LET n == CHOOSE n \in DOMAIN fg.resources : fg.resources[n].resourceID = id
  IN fg.resources[n].state

\* C27: within one execute(), the old state passed in each transitionResource
\* request for a resource equals the new state of the previous request for that
\* resource, or the resource's initial state when there was none; a resource
\* already moved to SHADER_READ is not transitioned to SHADER_READ again.
C27_StateFollowsTransitions ==
  phase = "executed" =>
    \A k \in DOMAIN log :
      log[k].op = "transitionResource" =>
        LET earlier == EarlierRequests(k, log[k].id)
            current == IF earlier = <<>> THEN InitialStateOf(log[k].id)
                       ELSE earlier[Len(earlier)].new
        IN /\ log[k].old = current
           /\ log[k].new = "SHADER_READ" => current # "SHADER_READ"


\* C26: compile() is idempotent: running compile() a second time on the result
\* of compile() removes no further pass and leaves the pass sequence unchanged.
C26_CompileIdempotent ==
  phase = "compiled" => compile(fg).passes = fg.passes


\* the passes marked used
Marked(st) == {i \in DOMAIN st.used : st.used[i]}

\* pass i of g reads something pass j writes
ReadsFrom(g, i, j) == Range(g.passes[i].inputs) \cap Range(g.passes[j].outputs) # {}

\* C28: compile() terminates for every finite frame graph, cyclic dependencies,
\* several writers of one resource and unresolved names included: each
\* repetition of the backward scan that sets changed marks at least one
\* previously unmarked pass, so the loop runs at most (number of passes + 1)
\* times; the marks it ends with are those compile() sweeps by.
C28_FixedPointTerminates ==
  phase = "compiled" =>
    LET trace == CompileScans(pre)
        scans == Len(trace) - 1
    IN /\ scans >= 1
       /\ scans <= Len(pre.passes) + 1
       /\ \A k \in 1..scans :
            /\ Marked(trace[k]) \subseteq Marked(trace[k + 1])
            /\ trace[k + 1].changed <=> Marked(trace[k + 1]) # Marked(trace[k])
            /\ trace[k + 1].changed <=> k < scans
       /\ fg.passes = Sweep(pre.passes, trace[Len(trace)].used, 1)

\* compile() of two passes that read from each other and write the same
\* resource, one of them reading a name that resolves to nothing, where the
\* backward scan ran twice
C28_Witness ==
  /\ phase = "compiled"
  /\ Len(pre.passes) = 2
  /\ ReadsFrom(pre, 1, 2) /\ ReadsFrom(pre, 2, 1)
  /\ \E i \in 1..2 : \E n \in Range(pre.passes[i].inputs) : n \notin DOMAIN pre.resources
  /\ \E n \in ResourceNames : \A i \in 1..2 : n \in Range(pre.passes[i].outputs)
  /\ Len(CompileScans(pre)) = 3

(***************************************************************************)
(* SpecLayers: a LayerStack driven through pushLayer, pushOverlay,         *)
(* popLayer and popOverlay                                                 *)
(***************************************************************************)
\* std::vector::emplace(begin() + index, x)
EmplaceAt(s, index, x) == SubSeq(s, 1, index) \o <<x>> \o SubSeq(s, index + 1, Len(s))

\* std::vector::erase of the element at position k (counted from 1)
EraseAt(s, k) == SubSeq(s, 1, k - 1) \o SubSeq(s, k + 1, Len(s))

\* std::find in s[from..to], counted from 1: the first position holding x, to + 1
\* when there is none
FindIn(s, from, to, x) ==
  LET hits == {k \in from..to : s[k] = x}
  IN IF hits = {} THEN to + 1 ELSE CHOOSE k \in hits : \A j \in hits : k <= j

\* a pushLayer that appends the layer behind everything in the stack
pushLayerAtEnd(stack, layer) ==
  [m_layers |-> Append(stack.m_layers, layer),
   m_layerInsertIndex |-> stack.m_layerInsertIndex + 1]

\* LayerStack::pushLayer
pushLayer(stack, layer) ==
  [m_layers |-> EmplaceAt(stack.m_layers, stack.m_layerInsertIndex, layer),
   m_layerInsertIndex |-> stack.m_layerInsertIndex + 1]

\* LayerStack::pushOverlay
pushOverlay(stack, overlay) == [stack EXCEPT !.m_layers = Append(@, overlay)]

\* LayerStack::popLayer
popLayer(stack, layer) ==
  LET iter == FindIn(stack.m_layers, 1, stack.m_layerInsertIndex, layer)
  IN IF iter # stack.m_layerInsertIndex + 1
     THEN [m_layers |-> EraseAt(stack.m_layers, iter),
           m_layerInsertIndex |-> stack.m_layerInsertIndex - 1]
     ELSE stack

\* LayerStack::popOverlay
popOverlay(stack, overlay) ==
  LET iter == FindIn(stack.m_layers, stack.m_layerInsertIndex + 1, Len(stack.m_layers),
                     overlay)
  IN IF iter # Len(stack.m_layers) + 1
     THEN [stack EXCEPT !.m_layers = EraseAt(@, iter)]
     ELSE stack

\* what every call on the LayerStack leaves alone
LayerFrame ==
  UNCHANGED <<graphVars, declared, consumerVars, passBuilderVars, commandVars, idVars,
              registryVars, configVars, frameVars, watchVars, notifyVars>>

PushLayer(layer) ==
  /\ Len(layerCalls) < MaxLayerCalls
  /\ layerStack' = pushLayer(layerStack, layer)
  /\ layerCalls' = Append(layerCalls, [op |-> "pushLayer", layer |-> layer])
  /\ LayerFrame

PushOverlay(overlay) ==
  /\ Len(layerCalls) < MaxLayerCalls
  /\ layerStack' = pushOverlay(layerStack, overlay)
  /\ layerCalls' = Append(layerCalls, [op |-> "pushOverlay", layer |-> overlay])
  /\ LayerFrame

PopLayer(layer) ==
  /\ Len(layerCalls) < MaxLayerCalls
  /\ layerStack' = popLayer(layerStack, layer)
  /\ layerCalls' = Append(layerCalls, [op |-> "popLayer", layer |-> layer])
  /\ LayerFrame

PopOverlay(overlay) ==
  /\ Len(layerCalls) < MaxLayerCalls
  /\ layerStack' = popOverlay(layerStack, overlay)
  /\ layerCalls' = Append(layerCalls, [op |-> "popOverlay", layer |-> overlay])
  /\ LayerFrame

NextLayers ==
  \/ \E layer \in LayerPtrs : PushLayer(layer)
  \/ \E layer \in LayerPtrs : PushOverlay(layer)
  \/ \E layer \in LayerPtrs : PopLayer(layer)
  \/ \E layer \in LayerPtrs : PopOverlay(layer)

SpecLayers == Init /\ [][NextLayers]_vars

(***************************************************************************)
(* Claims about LayerStack, checked under SpecLayers                       *)
(***************************************************************************)
\* s without its first element equal to x
RECURSIVE WithoutFirst(_, _)
WithoutFirst(s, x) ==
  IF s = <<>> THEN <<>>
  ELSE IF Head(s) = x THEN Tail(s)
  ELSE <<Head(s)>> \o WithoutFirst(Tail(s), x)

\* the regular layers (kind "Layer") or the overlays (kind "Overlay") that the
\* first n calls pushed and did not pop, in push order
RECURSIVE Remaining(_, _)
Remaining(kind, n) ==
  IF n = 0 THEN <<>>
  ELSE LET call == layerCalls[n]
           before == Remaining(kind, n - 1)
       IN IF call.op = "push" \o kind THEN Append(before, call.layer)
          ELSE IF call.op = "pop" \o kind THEN WithoutFirst(before, call.layer)
          ELSE before

\* C23: after any sequence of pushLayer, pushOverlay, popLayer and popOverlay
\* every regular layer is positioned before every overlay, regular layers and
\* overlays each keep their push order, and the insert index equals the number
\* of regular layers in the stack (never larger than the stack size); popLayer
\* of something that is not a regular layer and popOverlay of something that is
\* not an overlay change nothing.
C23_LayersBeforeOverlays ==
  LET layers == Remaining("Layer", Len(layerCalls))
      overlays == Remaining("Overlay", Len(layerCalls))
  IN /\ layerStack.m_layers = layers \o overlays
     /\ layerStack.m_layerInsertIndex = Len(layers)
     /\ layerStack.m_layerInsertIndex <= Len(layerStack.m_layers)

\* a layer was pushed after an overlay, and a popLayer of a layer that is in the
\* stack as an overlay only changed nothing
C23_Witness ==
  /\ Len(layerCalls) = 3
  /\ layerCalls[1].op = "pushOverlay"
  /\ layerCalls[2].op = "pushLayer" /\ layerCalls[2].layer # layerCalls[1].layer
  /\ layerCalls[3].op = "popLayer" /\ layerCalls[3].layer = layerCalls[1].layer
  /\ layerStack.m_layers = <<layerCalls[2].layer, layerCalls[1].layer>>

(***************************************************************************)
(* SpecFrame: the loop body of Application::run over a layer stack filled  *)
(* before the frame; layers are pushed and enabled or disabled between     *)
(* frames                                                                  *)
(***************************************************************************)
\* Renderer::beginframe: m_currentFramegraph is a fresh FrameGraph holding the
\* swapchain resource with its ID, in RENDER_TARGET, not transient
beginframe ==
  LET g == FGcreateResource(EmptyGraph, "Swapchain", "UNDEFINED", FALSE)
  IN [g EXCEPT !.resources["Swapchain"] =
        [@ EXCEPT !.resourceID = IDOf("Swapchain"), !.state = "RENDER_TARGET",
                  !.transient = FALSE]]

\* one thing a frame did: a call on the Renderer or on a Layer
FrameEvent(op, layer) == [op |-> op, layer |-> layer]

\* an iteration of the loop over the layers that calls prepareDraw whether or
\* not the layer is enabled
prepareLayerUnconditionally(events, layer, isEnabled) ==
  Append(events, FrameEvent("prepareDraw", layer))

\* Application.cc 132-139: one iteration of the loop over the layer stack
prepareLayer(events, layer, isEnabled) ==
  IF isEnabled THEN Append(events, FrameEvent("prepareDraw", layer)) ELSE events

\* what a step of the frame leaves alone
FrameFrame ==
  UNCHANGED <<graphVars, declared, consumerVars, passBuilderVars, commandVars, idVars,
              registryVars, configVars, watchVars, notifyVars>>

\* Layer::setEnabled, called between two frames
SetEnabled(layer, value) ==
  /\ framePc = "top"
  /\ enabled[layer] # value
  /\ enabled' = [enabled EXCEPT ![layer] = value]
  /\ UNCHANGED <<framePc, layerIter, frameLog, layerVars>>
  /\ FrameFrame

\* Application.cc 125-128: m_renderer->beginframe(), createFrameGraphBuilder().
\* The entry of the log also holds the layer stack and the enabled flags the
\* frame starts with (history).
FrameBegin ==
  /\ framePc = "top"
  /\ frameLog' = <<[op |-> "beginframe", layer |-> "", graph |-> beginframe,
                    layers |-> layerStack.m_layers, enabled |-> enabled]>>
  /\ layerIter' = 1
  /\ framePc' = "layers"
  /\ UNCHANGED <<enabled, layerVars>>
  /\ FrameFrame

\* Application.cc 132-139: the next layer of the stack
FramePrepare ==
  /\ framePc = "layers"
  /\ layerIter <= Len(layerStack.m_layers)
  /\ frameLog' = prepareLayer(frameLog, layerStack.m_layers[layerIter],
                              enabled[layerStack.m_layers[layerIter]])
  /\ layerIter' = layerIter + 1
  /\ UNCHANGED <<framePc, enabled, layerVars>>
  /\ FrameFrame

\* Application.cc 143: framegraphBuilder.build(), after the last layer
FrameBuild ==
  /\ framePc = "layers"
  /\ layerIter > Len(layerStack.m_layers)
  /\ frameLog' = Append(frameLog, FrameEvent("build", ""))
  /\ framePc' = "built"
  /\ UNCHANGED <<layerIter, enabled, layerVars>>
  /\ FrameFrame

\* Application.cc 147: m_renderer->executeFramegraph(frameGraph)
FrameExecute ==
  /\ framePc = "built"
  /\ frameLog' = Append(frameLog, FrameEvent("executeFramegraph", ""))
  /\ framePc' = "executed"
  /\ UNCHANGED <<layerIter, enabled, layerVars>>
  /\ FrameFrame

\* Application.cc 150: m_renderer->endFrame(), and back to the loop condition
FrameEnd ==
  /\ framePc = "executed"
  /\ frameLog' = Append(frameLog, FrameEvent("endFrame", ""))
  /\ framePc' = "top"
  /\ UNCHANGED <<layerIter, enabled, layerVars>>
  /\ FrameFrame

NextFrame ==
  \/ \E layer \in LayerPtrs : framePc = "top" /\ PushLayer(layer)
  \/ \E layer \in LayerPtrs : framePc = "top" /\ PushOverlay(layer)
  \/ \E layer \in LayerPtrs, value \in BOOLEAN : SetEnabled(layer, value)
  \/ FrameBegin
  \/ FramePrepare
  \/ FrameBuild
  \/ FrameExecute
  \/ FrameEnd

SpecFrame == Init /\ [][NextFrame]_vars

(***************************************************************************)
(* Claims about Application::run, checked under SpecFrame                  *)
(***************************************************************************)
\* the entries of the layer stack whose layer is enabled, in stack order, as
\* they were when the frame in frameLog began
EnabledLayers ==
  IF frameLog = <<>> THEN <<>>
  ELSE SelectSeq(frameLog[1].layers, LAMBDA layer : frameLog[1].enabled[layer])

\* the operations of a whole frame that prepares these layers, in order
FrameOps(layers) ==
  <<"beginframe">> \o [k \in DOMAIN layers |-> "prepareDraw"]
    \o <<"build", "executeFramegraph", "endFrame">>

\* C24: in every frame the events occur in this order: beginframe (a fresh
\* FrameGraph with the non-transient swapchain resource), prepareDraw exactly
\* once for each enabled layer in layer-stack order and never for a disabled
\* layer, build(), execute, endFrame; no prepareDraw happens after build() of
\* the same frame.
C24_FrameOrder ==
  LET ops == [k \in DOMAIN frameLog |-> frameLog[k].op]
      prepared == SelectSeq(frameLog, LAMBDA e : e.op = "prepareDraw")
      expected == FrameOps(EnabledLayers)
  IN /\ Len(ops) <= Len(expected)
     /\ ops = SubSeq(expected, 1, Len(ops))
     /\ frameLog # <<>> =>
          /\ frameLog[1].graph.passes = <<>>
          /\ "Swapchain" \in DOMAIN frameLog[1].graph.resources
          /\ ~frameLog[1].graph.resources["Swapchain"].transient
     /\ \A k \in DOMAIN prepared : prepared[k].layer = EnabledLayers[k]
     /\ framePc \in {"built", "executed"} \/ (framePc = "top" /\ frameLog # <<>>) =>
          Len(prepared) = Len(EnabledLayers)
     /\ framePc = "top" /\ frameLog # <<>> => ops = expected

\* a frame ended over a stack of an enabled layer, a disabled layer and an
\* enabled overlay
C24_Witness ==
  /\ framePc = "top"
  /\ Len(frameLog) = 6
  /\ frameLog[1].layers = layerStack.m_layers
  /\ frameLog[1].enabled = enabled
  /\ Len(layerStack.m_layers) = 3
  /\ layerStack.m_layerInsertIndex = 2
  /\ \E k \in 1..2 : ~enabled[layerStack.m_layers[k]]
  /\ enabled[layerStack.m_layers[3]]

(***************************************************************************)
(* SpecWatch: Config with its FileWatcher: the application thread calls    *)
(* init(), setWatchingEnabled() and a getter, the files are rewritten, and *)
(* the watcher thread polls and reloads                                    *)
(***************************************************************************)
\* FileWatcher::FileWatcher: the write time of the file when it exists
FileWatcher(filePath, files) ==
  [created |-> TRUE, m_filePath |-> filePath,
   m_lastWriteTime |-> IF filePath \in DOMAIN files THEN files[filePath].mtime ELSE 0,
   m_running |-> FALSE]

\* FileWatcher::start
start(watcher) == IF watcher.m_running THEN watcher ELSE [watcher EXCEPT !.m_running = TRUE]

\* FileWatcher::stop, up to the join
stop(watcher) == IF ~watcher.m_running THEN watcher ELSE [watcher EXCEPT !.m_running = FALSE]

\* a setWatchingEnabled that, asked to disable, clears the flag and leaves the
\* watcher running
setWatchingEnabledWithoutStop(c, enable, filePath, files) ==
  IF c.s_watchingEnabled = enable THEN c
  ELSE IF enable
       THEN LET watcher == IF c.s_fileWatcher.created THEN c.s_fileWatcher
                           ELSE FileWatcher(filePath, files)
            IN [c EXCEPT !.s_watchingEnabled = TRUE,
                         !.s_fileWatcher = start(watcher),
                         !.watchThread = IF watcher.m_running THEN @ ELSE "loop"]
       ELSE [c EXCEPT !.s_watchingEnabled = FALSE]

\* Config::setWatchingEnabled(enable) on c = the flag, the watcher and the two
\* threads; filePath is s_configFilePath. Disabling leaves the application
\* thread in the join of FileWatcher::stop.
setWatchingEnabled(c, enable, filePath, files) ==
  IF c.s_watchingEnabled = enable THEN c
  ELSE IF enable
       THEN LET watcher == IF c.s_fileWatcher.created THEN c.s_fileWatcher
                           ELSE FileWatcher(filePath, files)
            IN [c EXCEPT !.s_watchingEnabled = TRUE,
                         !.s_fileWatcher = start(watcher),
                         !.watchThread = IF watcher.m_running THEN @ ELSE "loop"]
       ELSE IF c.s_fileWatcher.created
            THEN [c EXCEPT !.s_watchingEnabled = FALSE,
                           !.s_fileWatcher = stop(@),
                           !.appPc = IF c.s_fileWatcher.m_running THEN "joining" ELSE @]
            ELSE [c EXCEPT !.s_watchingEnabled = FALSE]

\* the flag, the watcher and the threads as one value
Watching ==
  [s_watchingEnabled |-> s_watchingEnabled, s_fileWatcher |-> s_fileWatcher,
   watchThread |-> watchThread, appPc |-> appPc]

SetWatching(c) ==
  /\ s_watchingEnabled' = c.s_watchingEnabled
  /\ s_fileWatcher' = c.s_fileWatcher
  /\ watchThread' = c.watchThread
  /\ appPc' = c.appPc

\* what a step of SpecWatch leaves alone
WatchFrame ==
  UNCHANGED <<graphVars, declared, consumerVars, passBuilderVars, commandVars, idVars,
              registryVars, layerVars, frameVars, notifyVars, configFile, callbacks,
              nextCallbackHandle, removedCallbacks>>

\* the file at path on disk, as loadFromFile finds it
FileAt(path) == IF path \in DOMAIN disk THEN FileHolding(disk[path].json) ELSE FileMissing

\* the file is rewritten with other contents and gets a new modification time
ModifyFile(path) ==
  /\ appPc = "idle"
  /\ disk[path].mtime <= MaxFileWrites
  /\ disk' = [disk EXCEPT ![path] =
       [mtime |-> @.mtime + 1,
        json |-> CHOOSE json \in {Document(name, "absent") : name \in NameValues} :
                   json # @.json]]
  /\ changedWatching' = IF s_watchingEnabled /\ path = configFilePath
                        THEN disk'[path].mtime ELSE changedWatching
  /\ UNCHANGED <<s_watchingEnabled, s_fileWatcher, watchThread, appPc, loadedTime>>
  /\ UNCHANGED <<configFilePath, configData, previousConfigData, lastCall>>
  /\ WatchFrame

\* Config::init(path, watchForChanges) on the application thread
InitWatching(path, watchForChanges) ==
  /\ appPc = "idle"
  /\ configFilePath' = path
  /\ LET loaded == loadFromFile(path, FileAt(path), configData)
     IN /\ configData' = loaded.data
        /\ previousConfigData' = IF loaded.ok THEN loaded.data ELSE previousConfigData
        /\ loadedTime' = IF loaded.ok THEN disk[path].mtime ELSE loadedTime
        /\ SetWatching(IF loaded.ok /\ watchForChanges
                       THEN setWatchingEnabled(Watching, TRUE, path, disk)
                       ELSE Watching)
        /\ lastCall' = [op |-> "init", path |-> path, watch |-> watchForChanges,
                        result |-> loaded.ok]
  /\ UNCHANGED <<disk, changedWatching>>
  /\ WatchFrame

\* Config::setWatchingEnabled(enable) on the application thread
SetWatchingEnabled(enable) ==
  /\ appPc = "idle"
  /\ SetWatching(setWatchingEnabled(Watching, enable, configFilePath, disk))
  /\ lastCall' = [op |-> "setWatchingEnabled", enable |-> enable]
  /\ UNCHANGED <<disk, loadedTime, changedWatching>>
  /\ UNCHANGED <<configFilePath, configData, previousConfigData>>
  /\ WatchFrame

\* Config.cc 42-44: the join of FileWatcher::stop returns when the thread has ended
JoinReturns ==
  /\ appPc = "joining"
  /\ watchThread = "none"
  /\ appPc' = "idle"
  /\ UNCHANGED <<disk, s_watchingEnabled, s_fileWatcher, watchThread, loadedTime,
                 changedWatching>>
  /\ UNCHANGED <<configFilePath, configData, previousConfigData, lastCall>>
  /\ WatchFrame

\* Config.cc 191-222: a getter (getString, getInt, getFloat, getBool, hasKey)
\* starts to walk s_configData; it takes no lock
GetterBegins ==
  /\ appPc = "idle"
  /\ appPc' = "reading"
  /\ UNCHANGED <<disk, s_watchingEnabled, s_fileWatcher, watchThread, loadedTime,
                 changedWatching>>
  /\ UNCHANGED <<configFilePath, configData, previousConfigData, lastCall>>
  /\ WatchFrame

\* the getter returns
GetterReturns ==
  /\ appPc = "reading"
  /\ appPc' = "idle"
  /\ UNCHANGED <<disk, s_watchingEnabled, s_fileWatcher, watchThread, loadedTime,
                 changedWatching>>
  /\ UNCHANGED <<configFilePath, configData, previousConfigData, lastCall>>
  /\ WatchFrame

\* Config.cc 52: the watcher thread finds m_running false and ends
WatcherExits ==
  /\ watchThread = "loop"
  /\ ~s_fileWatcher.m_running
  /\ watchThread' = "none"
  /\ UNCHANGED <<disk, s_watchingEnabled, s_fileWatcher, appPc, loadedTime,
                 changedWatching>>
  /\ UNCHANGED <<configFilePath, configData, previousConfigData, lastCall>>
  /\ WatchFrame

\* Config.cc 52-64: a poll that finds the file with another write time than
\* the one remembered (a poll that finds no change leaves the state as it is)
WatcherDetects ==
  /\ watchThread = "loop"
  /\ s_fileWatcher.m_running
  /\ s_fileWatcher.m_filePath \in DOMAIN disk
  /\ disk[s_fileWatcher.m_filePath].mtime # s_fileWatcher.m_lastWriteTime
  /\ s_fileWatcher' = [s_fileWatcher EXCEPT
                         !.m_lastWriteTime = disk[s_fileWatcher.m_filePath].mtime]
  /\ watchThread' = "callback"
  /\ UNCHANGED <<disk, s_watchingEnabled, appPc, loadedTime, changedWatching>>
  /\ UNCHANGED <<configFilePath, configData, previousConfigData, lastCall>>
  /\ WatchFrame

\* Config.cc 186-189, 136-143: onConfigFileChanged calls reload(), which saves
\* s_previousConfigData and enters loadFromFile; it takes no lock
ReloadBegins ==
  /\ watchThread = "callback"
  /\ previousConfigData' = configData
  /\ watchThread' = "loading"
  /\ UNCHANGED <<disk, s_watchingEnabled, s_fileWatcher, appPc, loadedTime,
                 changedWatching>>
  /\ UNCHANGED <<configFilePath, configData, lastCall>>
  /\ WatchFrame

\* Config.cc 162-163, 143-151: s_configData has been replaced by the contents of
\* the file at s_configFilePath; no callback is registered, and the thread
\* goes back to its loop
ReloadEnds ==
  /\ watchThread = "loading"
  /\ LET loaded == loadFromFile(configFilePath, FileAt(configFilePath), configData)
     IN /\ configData' = loaded.data
        /\ loadedTime' = IF loaded.ok THEN disk[configFilePath].mtime ELSE loadedTime
  /\ watchThread' = "loop"
  /\ UNCHANGED <<disk, s_watchingEnabled, s_fileWatcher, appPc, changedWatching>>
  /\ UNCHANGED <<configFilePath, previousConfigData, lastCall>>
  /\ WatchFrame

\* the steps of the watcher thread
WatcherStep == WatcherExits \/ WatcherDetects \/ ReloadBegins \/ ReloadEnds

NextWatch ==
  \/ \E path \in Paths : ModifyFile(path)
  \/ \E path \in Paths, watchForChanges \in BOOLEAN : InitWatching(path, watchForChanges)
  \/ \E enable \in BOOLEAN : SetWatchingEnabled(enable)
  \/ JoinReturns
  \/ GetterBegins
  \/ GetterReturns
  \/ WatcherExits
  \/ WatcherDetects
  \/ ReloadBegins
  \/ ReloadEnds

SpecWatch == Init /\ [][NextWatch]_vars


(***************************************************************************)
(* SpecWatched: SpecWatch as the test fixture uses Config: init(path)      *)
(* first, then watching of that file is enabled and disabled and the file  *)
(* is rewritten; the watcher thread is scheduled fairly                    *)
(***************************************************************************)
\* the path the fixture initialises Config with
ConfigPath == "a.json"

NextWatched ==
  \/ configFilePath = "" /\ InitWatching(ConfigPath, FALSE)
  \/ configFilePath # "" /\ ModifyFile(ConfigPath)
  \/ \E enable \in BOOLEAN : configFilePath # "" /\ SetWatchingEnabled(enable)
  \/ JoinReturns
  \/ WatcherExits
  \/ WatcherDetects
  \/ ReloadBegins
  \/ ReloadEnds

SpecWatched == Init /\ [][NextWatched]_vars /\ WF_vars(WatcherStep)

(***************************************************************************)
(* Claims about file watching                                              *)
(***************************************************************************)
\* watching is enabled and the last write made while it was enabled gave the
\* configuration file the modification time time
ChangedWhileWatching(time) == s_watchingEnabled /\ changedWatching = time

\* a reload loaded the file as it was at time or later, and the getters read what
\* was loaded
Reloaded(time) ==
  /\ loadedTime >= time
  /\ loadedTime = disk[ConfigPath].mtime => configData = disk[ConfigPath].json

\* setWatchingEnabled(false) has returned
DisableReturned ==
  lastCall.op = "setWatchingEnabled" /\ ~lastCall.enable /\ appPc = "idle"

C22_InitWatchesItsPath ==
  (lastCall.op = "init" /\ lastCall.watch /\ lastCall.result) =>
    /\ s_watchingEnabled
    /\ s_fileWatcher.created
    /\ s_fileWatcher.m_running
    /\ s_fileWatcher.m_filePath = lastCall.path

\* C29: the configuration data is never read by a getter on the application
\* thread while the watcher thread's reload() is replacing it.
C29_GetterExcludesReload ==
  ~(appPc = "reading" /\ watchThread = "loading")


(***************************************************************************)
(* SpecNotify: Config::reload() step by step: notifyCallbacks locks the    *)
(* callback mutex and invokes the callbacks one after the other; a         *)
(* callback may call back into Config                                      *)
(***************************************************************************)
\* what a step of the notification leaves alone
NotifyFrame ==
  UNCHANGED <<graphVars, declared, consumerVars, passBuilderVars, commandVars, idVars,
              registryVars, layerVars, frameVars, watchVars, configFile, configFilePath,
              callbacks, nextCallbackHandle, lastCall, removedCallbacks>>

\* Config::reload() up to the lock_guard of notifyCallbacks (Config.cc 136-147,
\* 324-329): the file is loaded and flattened; when it held something the mutex
\* is locked and the invocations to make are those of notifyCallbacks
ReloadLocks ==
  /\ notifyPc = "idle"
  /\ previousConfigData' = configData
  /\ LET loaded == loadFromFile(configFilePath, configFile, configData)
         changedValues == flattenJSON(loaded.data)
         notifies == loaded.ok /\ DOMAIN changedValues # {}
     IN /\ configData' = loaded.data
        /\ \E keyOrder \in KeyOrders(changedValues) :
             pendingCalls' = IF notifies
                             THEN notifyCallbacks(callbacks, changedValues, keyOrder)
                             ELSE <<>>
        /\ s_callbackMutex' = IF notifies THEN "locked" ELSE s_callbackMutex
        /\ notifyPc' = IF notifies THEN "notifying" ELSE notifyPc
  /\ NotifyFrame

\* Config.cc 339-353, 362-376: the next callback is invoked and returns
\* without calling Config
CallbackReturns ==
  /\ notifyPc = "notifying"
  /\ pendingCalls # <<>>
  /\ pendingCalls' = Tail(pendingCalls)
  /\ UNCHANGED <<s_callbackMutex, notifyPc, configData, previousConfigData>>
  /\ NotifyFrame

\* the next callback calls onValueChanged, onAnyValueChanged or removeCallback:
\* their lock_guard (Config.cc 261, 277, 292) locks the std::mutex that
\* notifyCallbacks holds on the same thread. The behaviour is undefined; the
\* thread blocks for ever, or lock() throws std::system_error, which the catch
\* of notifyCallbacks logs before it goes on with the next invocation.
CallbackCallsConfig(outcome) ==
  /\ notifyPc = "notifying"
  /\ pendingCalls # <<>>
  /\ s_callbackMutex = "locked"
  /\ IF outcome = "blocks"
     THEN notifyPc' = "blocked" /\ UNCHANGED pendingCalls
     ELSE pendingCalls' = Tail(pendingCalls) /\ UNCHANGED notifyPc
  /\ UNCHANGED <<s_callbackMutex, configData, previousConfigData>>
  /\ NotifyFrame

\* Config.cc 380, 148: the lock_guard is released and reload() returns true
NotifyReturns ==
  /\ notifyPc = "notifying"
  /\ pendingCalls = <<>>
  /\ s_callbackMutex' = "free"
  /\ notifyPc' = "idle"
  /\ UNCHANGED <<pendingCalls, configData, previousConfigData>>
  /\ NotifyFrame

NextNotify ==
  \/ \E json \in Documents : notifyPc = "idle" /\ WriteFile(FileHolding(json))
  \/ notifyPc = "idle" /\ InitCall
  \/ \E key \in WatchedKeys \cup {<<>>} : notifyPc = "idle" /\ OnValueChanged(key)
  \/ ReloadLocks
  \/ CallbackReturns
  \/ \E outcome \in {"blocks", "throws"} : CallbackCallsConfig(outcome)
  \/ NotifyReturns

SpecNotify == Init /\ [][NextNotify]_vars

\* C30: Config::reload() always returns: notification of the registered
\* callbacks completes also when a callback, while it is being notified,
\* itself calls onValueChanged, onAnyValueChanged or removeCallback; no
\* deadlock on the callback mutex is reachable.
C30_NoDeadlockOnCallbackMutex ==
  ~(notifyPc = "blocked" /\ s_callbackMutex = "locked")

=============================================================================
